---- MODULE Spec2Model ----
(***************************************************************************)
(* A model of the log-analytics pipeline: idempotent batch admission on    *)
(* the link-based file storage, batch summarization, the partitioned       *)
(* in-process queue, the per-lane consumer workers and the read-merge-     *)
(* write aggregation, under the App lifecycle (Start, requests, Shutdown). *)
(***************************************************************************)
EXTENDS Integers, Sequences, FiniteSets, TLC

\* ------------------------------------------------------------------ bounds

\* number of IngestBatch calls of one run
MaxRequests == 2
\* number of injected failures (store I/O errors, request cancellations) of one run
MaxFaults == 1
\* numPartitions argument of channelsNewPartitionedQueue
numPartitions == 2
\* buffer argument of channelsNewPartitionedQueue
buffer == 2
\* number of concurrent callers of partialInsightConsumer.Stop
MaxStops == 2
\* number of receives from its closed, drained lane followed per worker
MaxClosedReceives == 1

\* ------------------------------------------------------- maps (Go map[string]int64)

EmptyMap == [k \in {} |-> 0]

\* m[k] of a Go map: the zero value when the key is absent
MapGet(m, k) == IF k \in DOMAIN m THEN m[k] ELSE 0

\* m[k] += v
MapAdd(m, k, v) == [x \in DOMAIN m \cup {k} |-> IF x = k THEN MapGet(m, k) + v ELSE m[x]]

\* ------------------------------------------------------------------- time

\* A time.Time is an instant (seconds since 2025-12-28T00:00:00Z) and a zone
\* offset in seconds.
Time(sec, off) == [sec |-> sec, off |-> off]

\* the time left in its own zone
UTCKeepZone(t) == t

\* Time.UTC: the same instant, in UTC
UTC(t) == [sec |-> t.sec, off |-> 0]

\* Time.Truncate(d) for a whole number of seconds d that divides a day
Truncate(t, d) == [sec |-> t.sec - (t.sec % d), off |-> t.off]

\* wall clock fields in the time's own zone
WallSec(t) == t.sec + t.off
Day(t) == WallSec(t) \div 86400
Hour(t) == (WallSec(t) \div 3600) % 24
Minute(t) == (WallSec(t) \div 60) % 60
Second(t) == WallSec(t) % 60

\* Time.Format(time.RFC3339): date, clock and zone offset as text fields
FormatRFC3339(t) == <<Day(t), Hour(t), Minute(t), Second(t), t.off>>

\* time.Parse(time.RFC3339, s)
ParseRFC3339(s) == Time(s[1] * 86400 + s[2] * 3600 + s[3] * 60 + s[4] - s[5], s[5])

\* Time.Equal: the same instant
TimeEqual(a, b) == a.sec = b.sec

\* ------------------------------------------------------------- WindowSize

WindowMinute == "minute"
WindowHour == "hour"

\* WindowSize.Duration in seconds; -1 stands for the panic on an invalid window size
Duration(w) ==
    CASE w = WindowMinute -> 60
      [] w = WindowHour -> 3600
      [] OTHER -> -1

\* WindowSize.FormatWindowStart: "20060102T1504Z" or "20060102T15Z" of the
\* UTC truncation
FormatWindowStart(w, t) ==
    LET utc == UTC(t) IN
    CASE Duration(w) = 60 ->
            LET tr == Truncate(utc, 60) IN <<Day(tr), Hour(tr), Minute(tr)>>
      [] Duration(w) = 3600 ->
            LET tr == Truncate(utc, 3600) IN <<Day(tr), Hour(tr)>>

\* two decimal digits as ASCII codes (fmt "%02d")
Digits2(n) == <<48 + (n \div 10), 48 + (n % 10)>>

\* WindowSize.BucketID: "minute-NN" or "hour-NN" as a sequence of ASCII codes
BucketID(w, t) ==
    LET utc == UTC(t) IN
    CASE Duration(w) = 60 ->
            <<109, 105, 110, 117, 116, 101, 45>> \o Digits2(Minute(utc))
      [] Duration(w) = 3600 ->
            <<104, 111, 117, 114, 45>> \o Digits2(Hour(utc))

\* ------------------------------------------------------- partitionIndex

RECURSIVE Xor8(_, _, _)
\* bitwise exclusive or of the low n bits of a and b
Xor8(a, b, n) ==
    IF n = 0 THEN 0
    ELSE (((a % 2) + (b % 2)) % 2) + 2 * Xor8(a \div 2, b \div 2, n - 1)

\* one FNV-1a step on a 32-bit hash kept as <<high 16 bits, low 16 bits>>:
\* h = (h xor byte) * 16777619 mod 2^32, with 16777619 = 2^24 + 403
FnvStep(h, byte) ==
    LET lo == (h[2] - (h[2] % 256)) + Xor8(h[2] % 256, byte, 8)
        hi == h[1]
        lo403 == lo * 403
    IN  <<(hi * 403 + (lo403 \div 65536) + (lo % 256) * 256) % 65536, lo403 % 65536>>

RECURSIVE Fnv32a(_, _)
\* fnv.New32a over the bytes of key, from the hash h
Fnv32a(h, key) ==
    IF key = << >> THEN h ELSE Fnv32a(FnvStep(h, Head(key)), Tail(key))

\* an index taken from the low byte of the digest, without the modulo
partitionIndexLowByte(key, n) == Fnv32a(<<33052, 40389>>, key)[2] % 256

\* partitionIndex: the FNV-1a digest (big-endian bytes) read as a
\* little-endian uint32, modulo n
partitionIndex(key, n) ==
    LET h == Fnv32a(<<33052, 40389>>, key)
        vhi == (h[2] % 256) * 256 + (h[2] \div 256)
        vlo == (h[1] % 256) * 256 + (h[1] \div 256)
    IN  (((vhi % n) * (65536 % n)) + (vlo % n)) % n

\* ------------------------------------------------------------ ingest inputs

\* the nil pointer / absent value
Nil == [nil |-> TRUE]

CustomerIDs == {"", "cus-axon", "cus-other"}
IdempotencyKeys == {"", "batch-0001", " batch-0001 "}
Formats == {"application/json", "text/plain"}

\* strings.TrimSpace on the strings of the model
TrimSpace(s) ==
    CASE s = " batch-0001 " -> "batch-0001"
      [] s = " /p2048 " -> "/p2048"
      [] s = " get " -> "get"
      [] OTHER -> s

\* strings.ToUpper on the method strings of the model
ToUpper(s) == IF s = "get" THEN "GET" ELSE s

\* strings.Contains(strings.ToLower(format), "json")
ContainsJSON(format) == format = "application/json"

UAChrome == "Mozilla/5.0 Chrome/120.0 Safari/537.36"
UAFirefox == "Mozilla/5.0 Firefox/121.0"

\* useragent.Parse(ua).Name: the family, empty when the parser knows none
UserAgentName(ua) ==
    CASE ua = UAChrome -> "Chrome"
      [] ua = UAFirefox -> "Firefox"
      [] OTHER -> ""

\* models.LogEntry
LogEntry(sec, off, method, path, ua) ==
    [ReceivedAt |-> Time(sec, off), Method |-> method, Path |-> path, UserAgent |-> ua]

\* request bodies, already decoded into entries: 18:03:15 and 18:03:45 in one
\* minute; 18:03:45 and 18:04:05 across two minutes; 19:03:10 (the minute-03
\* bucket of another hour, written with a +01:00 offset); and the empty array
Bodies ==
    { <<LogEntry(64995, 0, "GET", "/", UAChrome), LogEntry(65025, 0, "GET", "/about", UAFirefox)>>,
      <<LogEntry(65025, 0, "get", "/", UAChrome), LogEntry(65045, 0, "GET", "/", "curl/8.0")>>,
      <<LogEntry(68590, 3600, "GET", "/", UAChrome)>>,
      << >> }

\* the window keys Summarize can give the entries of these bodies
WindowKeys ==
    {FormatRFC3339(Truncate(UTC(body[i].ReceivedAt), Duration(w))) :
        <<body, i, w>> \in {x \in Bodies \X (1..2) \X {WindowMinute, WindowHour} : x[2] <= Len(x[1])}}

\* validateLogBatch: the error code, or "" when the batch is accepted
validateLogBatch(customerID, format, body) ==
    CASE customerID = "" -> "ING_1000"
      [] ~ContainsJSON(format) -> "ING_1000"
      [] Len(body) = 0 -> "ING_1000"
      [] OTHER -> ""

\* normalizeLogEntry
normalizeLogEntry(e) ==
    [e EXCEPT !.Path = TrimSpace(e.Path),
              !.Method = ToUpper(TrimSpace(e.Method)),
              !.UserAgent = TrimSpace(e.UserAgent)]

\* parseJSON: the normalized entries of a decoded body
parseJSON(body) == [i \in 1..Len(body) |-> normalizeLogEntry(body[i])]

\* ------------------------------------------------- the request, in detail

maxBatchBytes == 2097152
maxPathLen == 2048
maxUserAgentLen == 1024

\* the size of a short JSON document, in bytes
SmallDoc == 512

\* a path of exactly maxPathLen bytes, one byte more, and the first between
\* two spaces; a user agent of maxUserAgentLen bytes and one byte more
PathMax == "/p2048"
PathLong == "/p2049"
PathPadded == " /p2048 "
UAMax == "ua1024"
UALong == "ua1025"

\* len(s); the other strings of the model are far shorter than the limits
StrLen(s) ==
    CASE s = PathMax -> maxPathLen
      [] s = PathLong -> maxPathLen + 1
      [] s = PathPadded -> maxPathLen + 2
      [] s = UAMax -> maxUserAgentLen
      [] s = UALong -> maxUserAgentLen + 1
      [] OTHER -> 8

\* a decoded JSON value: a string, or something else (a number)
Str(s) == [string |-> s]
Num == [number |-> 1]
IsString(v) == DOMAIN v = {"string"}

Fields == {"receivedAt", "method", "path", "userAgent"}

\* a JSON object without one of its members
Without(obj, f) == [k \in DOMAIN obj \ {f} |-> obj[k]]

\* well-formed items: 18:03:15Z with a lower-case method; 18:03:45.000Z with
\* the longest path, padded, and the longest user agent; 19:03:10+01:00
GoodItems ==
    { [receivedAt |-> Str("2025-12-28T18:03:15Z"), method |-> Str(" get "),
       path |-> Str("/"), userAgent |-> Str(UAChrome)],
      [receivedAt |-> Str("2025-12-28T18:03:45.000Z"), method |-> Str("GET"),
       path |-> Str(PathPadded), userAgent |-> Str(UAMax)],
      [receivedAt |-> Str("2025-12-28T19:03:10+01:00"), method |-> Str("GET"),
       path |-> Str("/"), userAgent |-> Str(UAFirefox)] }

GoodItem == [receivedAt |-> Str("2025-12-28T18:03:15Z"), method |-> Str(" get "),
             path |-> Str("/"), userAgent |-> Str(UAChrome)]

\* items with one defect: a member missing, a member that is not a string, a
\* receivedAt no format parses, a path or user agent over its limit
BadItems ==
    {Without(GoodItem, f) : f \in Fields} \cup
    {[GoodItem EXCEPT ![f] = Num] : f \in Fields} \cup
    { [GoodItem EXCEPT !.receivedAt = Str("28/12/2025 18:03")],
      [GoodItem EXCEPT !.path = Str(PathLong)],
      [GoodItem EXCEPT !.userAgent = Str(UALong)] }

\* JSON documents: arrays of up to two objects with at most one bad one,
\* null, a single object, and text that is not JSON
Docs ==
    {[kind |-> "array", items |-> << >>]} \cup
    {[kind |-> "array", items |-> <<a>>] : a \in GoodItems \cup BadItems} \cup
    {[kind |-> "array", items |-> <<a, b>>] : a \in GoodItems, b \in {GoodItem} \cup BadItems} \cup
    {[kind |-> "array", items |-> <<b, GoodItem>>] : b \in BadItems} \cup
    {[kind |-> "null", items |-> << >>], [kind |-> "object", items |-> << >>],
     [kind |-> "malformed", items |-> << >>]}

\* a request body behind its io.Reader: the document, the bytes of its text,
\* the bytes of white space after it, and the bytes the first Read returns
Body(doc, docBytes, padBytes, read) ==
    [doc |-> doc, docBytes |-> docBytes, padBytes |-> padBytes, read |-> read]

BodySize(body) == body.docBytes + body.padBytes

\* bodies below, at and one byte over the limit, the document filling them
\* or followed by white space, read whole or with a short first Read
SizedBodies ==
    {Body(doc, docBytes, size - docBytes, read) :
        doc \in Docs,
        docBytes \in {SmallDoc, maxBatchBytes, maxBatchBytes + 1},
        size \in {SmallDoc, maxBatchBytes, maxBatchBytes + 1},
        read \in {SmallDoc, maxBatchBytes, maxBatchBytes + 1}}

RawBodies == {b \in SizedBodies : b.padBytes >= 0 /\ b.read <= BodySize(b)}

Min(a, b) == IF a < b THEN a ELSE b

\* readWithLimit: one Read through io.LimitReader(r, max+1) into a buffer of
\* max+1 bytes; the number of bytes kept, or an error when it exceeds max
readWithLimit(body, max) ==
    LET n == Min(body.read, max + 1)
    IN  IF n > max THEN [n |-> 0, err |-> "batch too large"] ELSE [n |-> n, err |-> ""]

\* json.Unmarshal(buf, &arr) of the first n bytes of the body: a text cut
\* short is no document; null leaves the slice nil; an object is not an array
Unmarshal(body, n) ==
    IF n < body.docBytes THEN [arr |-> << >>, err |-> "invalid json"]
    ELSE IF body.doc.kind \in {"malformed", "object"} THEN [arr |-> << >>, err |-> "invalid json"]
    ELSE [arr |-> body.doc.items, err |-> ""]

\* parseTime: the two layouts, in order
parseTime(timeStr) ==
    CASE timeStr = "2025-12-28T18:03:45.000Z" -> [t |-> Time(65025, 0), err |-> ""]
      [] timeStr = "2025-12-28T18:03:15Z" -> [t |-> Time(64995, 0), err |-> ""]
      [] timeStr = "2025-12-28T19:03:10+01:00" -> [t |-> Time(68590, 3600), err |-> ""]
      [] OTHER -> [t |-> Time(0, 0), err |-> "ING_1000"]

\* a validateLogEntry that checks the path only
validateLogEntryPathOnly(e) == IF StrLen(e.Path) > maxPathLen THEN "ING_1000" ELSE ""

\* validateLogEntry
validateLogEntry(e) ==
    IF StrLen(e.Path) > maxPathLen THEN "ING_1000"
    ELSE IF StrLen(e.UserAgent) > maxUserAgentLen THEN "ING_1000"
    ELSE ""

\* jsonObjectToLogEntry
jsonObjectToLogEntry(obj) ==
    LET bad == [entry |-> Nil, err |-> "ING_1000"] IN
    IF "receivedAt" \notin DOMAIN obj THEN bad
    ELSE IF ~IsString(obj.receivedAt) THEN bad
    ELSE IF parseTime(obj.receivedAt.string).err # "" THEN bad
    ELSE IF "method" \notin DOMAIN obj THEN bad
    ELSE IF ~IsString(obj.method) THEN bad
    ELSE IF "path" \notin DOMAIN obj THEN bad
    ELSE IF ~IsString(obj.path) THEN bad
    ELSE IF "userAgent" \notin DOMAIN obj THEN bad
    ELSE IF ~IsString(obj.userAgent) THEN bad
    ELSE LET entry == normalizeLogEntry([ReceivedAt |-> parseTime(obj.receivedAt.string).t,
                                         Method |-> obj.method.string,
                                         Path |-> obj.path.string,
                                         UserAgent |-> obj.userAgent.string])
         IN  IF validateLogEntry(entry) # "" THEN bad ELSE [entry |-> entry, err |-> ""]

\* parseJSON on the bytes read: Unmarshal, then every item in turn
parseJSONBytes(body, n) ==
    LET decoded == Unmarshal(body, n) IN
    IF decoded.err # "" THEN [entries |-> << >>, err |-> "ING_1000"]
    ELSE IF \E i \in 1..Len(decoded.arr) : jsonObjectToLogEntry(decoded.arr[i]).err # ""
    THEN [entries |-> << >>, err |-> "ING_1000"]
    ELSE [entries |-> [i \in 1..Len(decoded.arr) |-> jsonObjectToLogEntry(decoded.arr[i]).entry],
          err |-> ""]

\* validateLogBatch on a reader: the entries and the error code
validateLogBatchReader(customerID, format, body) ==
    LET rejected == [entries |-> << >>, err |-> "ING_1000"] IN
    IF customerID = "" THEN rejected
    ELSE IF body = Nil THEN rejected
    ELSE LET buf == readWithLimit(body, maxBatchBytes) IN
         IF buf.err # "" THEN rejected
         ELSE IF ~ContainsJSON(format) THEN rejected
         ELSE LET parsed == parseJSONBytes(body, buf.n) IN
              IF parsed.err # "" THEN rejected
              ELSE IF Len(parsed.entries) = 0 THEN rejected
              ELSE parsed

\* ingestors.IngestResult
IngestResult(batchID, storedCount) == [BatchID |-> batchID, StoredCount |-> storedCount]

\* models.LogBatch
LogBatch(batchID, customerID, entries) ==
    [BatchID |-> batchID, CustomerID |-> customerID, Entries |-> entries]

\* ulid.NewULID: the n-th fresh id of the process
NewULID(n) == "01HULID" \o ToString(n)

\* ---------------------------------------------------------- batchSummarizer

\* normalizeUserAgent
normalizeUserAgent(ua) == IF UserAgentName(ua) # "" THEN UserAgentName(ua) ELSE ua

\* models.WindowAggregates with empty maps
EmptyWindowCounts == [RequestsByPath |-> EmptyMap, RequestsByUserAgent |-> EmptyMap]

\* a loop body that starts the entry's window afresh each time
SummarizeEntryFresh(byWindowStart, entry, w) ==
    LET windowKey == FormatRFC3339(Truncate(UTC(entry.ReceivedAt), Duration(w)))
        counted == [RequestsByPath |->
                        MapAdd(EmptyMap, ToUpper(entry.Method) \o " " \o entry.Path, 1),
                    RequestsByUserAgent |->
                        MapAdd(EmptyMap, normalizeUserAgent(entry.UserAgent), 1)]
    IN  [k \in DOMAIN byWindowStart \cup {windowKey} |->
            IF k = windowKey THEN counted ELSE byWindowStart[k]]

\* the body of Summarize's loop: count one entry into byWindowStart
SummarizeEntry(byWindowStart, entry, w) ==
    LET windowStart == Truncate(UTC(entry.ReceivedAt), Duration(w))
        windowKey == FormatRFC3339(windowStart)
        window == IF windowKey \in DOMAIN byWindowStart
                  THEN byWindowStart[windowKey] ELSE EmptyWindowCounts
        normalizedPath == ToUpper(entry.Method) \o " " \o entry.Path
        normalizedUA == normalizeUserAgent(entry.UserAgent)
        counted == [RequestsByPath |-> MapAdd(window.RequestsByPath, normalizedPath, 1),
                    RequestsByUserAgent |-> MapAdd(window.RequestsByUserAgent, normalizedUA, 1)]
    IN  [k \in DOMAIN byWindowStart \cup {windowKey} |->
            IF k = windowKey THEN counted ELSE byWindowStart[k]]

RECURSIVE SummarizeEntries(_, _, _)
SummarizeEntries(byWindowStart, entries, w) ==
    IF entries = << >> THEN byWindowStart
    ELSE SummarizeEntries(SummarizeEntry(byWindowStart, Head(entries), w), Tail(entries), w)

\* batchSummarizer.Summarize
Summarize(batch, w) ==
    [BatchID |-> batch.BatchID, CustomerID |-> batch.CustomerID, WindowSize |-> w,
     ByWindowStart |-> SummarizeEntries([k \in {} |-> EmptyWindowCounts], batch.Entries, w)]

\* ------------------------------------------------------------ file storage

\* fmt.Sprintf("%s/%s/%s.json", dir, customerID, name)
FileKey(dir, customerID, name) == <<dir, customerID, name>>

\* a link that replaces an existing destination, as os.Rename does
LinkReplace(fs, key, content) ==
    [fs |-> [k \in DOMAIN fs \cup {key} |-> IF k = key THEN content ELSE fs[k]], err |-> ""]

\* os.Link(tmp, final): the file system after the call and its error
Link(fs, key, content) ==
    IF key \in DOMAIN fs
    THEN [fs |-> fs, err |-> "EEXIST"]
    ELSE [fs |-> [k \in DOMAIN fs \cup {key} |-> IF k = key THEN content ELSE fs[k]],
          err |-> ""]

\* os.Rename(tmp, final): the file system after the call
Rename(fs, key, content) ==
    [k \in DOMAIN fs \cup {key} |-> IF k = key THEN content ELSE fs[k]]

\* a no-overwrite put that reports success when the destination exists
putNoOverwriteSilent(fs, key, content, ioFail) ==
    IF ioFail THEN [fs |-> fs, err |-> "EIO"]
    ELSE [fs |-> Link(fs, key, content).fs, err |-> ""]

\* fileStorage.putNoOverwrite once the temp file is written; ioFail is an
\* I/O failure of the link other than EEXIST
putNoOverwrite(fs, key, content, ioFail) ==
    IF ioFail THEN [fs |-> fs, err |-> "EIO"]
    ELSE LET linked == Link(fs, key, content) IN
         IF linked.err = "EEXIST"
         THEN [fs |-> fs, err |-> "ErrFileAlreadyExists"]
         ELSE linked

\* fileStorage.putOverwrite; ioFail is an I/O failure before the rename
putOverwrite(fs, key, content, ioFail) ==
    IF ioFail THEN [fs |-> fs, err |-> "EIO"]
    ELSE [fs |-> Rename(fs, key, content), err |-> ""]

\* fileStorage.Get
FileGet(fs, key, ioFail) ==
    IF ioFail THEN [data |-> Nil, err |-> "EIO"]
    ELSE IF key \notin DOMAIN fs THEN [data |-> Nil, err |-> "ErrFileNotFound"]
    ELSE [data |-> fs[key], err |-> ""]

\* -------------------------------------------------- file storage, in detail

\* the storage calls made, one per caller
MaxCalls == 2
Callers == 1..MaxCalls

\* the longest key, in path segments
MaxSegs == 2

\* the names a path segment takes; the last is a file name that starts with
\* two dots
Segments == {"a", ".", "..", "..a"}

\* a key is a slash-separated path: whether it begins with the separator,
\* and its segments; the empty key has neither
Path(abs, segs) == [abs |-> abs, segs |-> segs]

RelativeSegs == UNION {[1..n -> Segments] : n \in 0..MaxSegs}

Keys == {Path(FALSE, segs) : segs \in RelativeSegs} \cup {Path(TRUE, << >>), Path(TRUE, <<"a">>)}

\* the file contents written, each in two chunks
Contents == {<<"p", "p">>, <<"q", "q">>}

\* the storage root, fileStorage.dir
Root == Path(TRUE, <<"data">>)

\* a sequence without its last element
Front(q) == SubSeq(q, 1, Len(q) - 1)

RECURSIVE CleanSegs(_, _, _)
\* filepath.Clean, segment by segment: '.' is dropped, '..' removes the
\* segment before it, is dropped at the root, and is kept at the start of a
\* relative path
CleanSegs(abs, acc, segs) ==
    IF segs = << >> THEN acc
    ELSE LET seg == Head(segs) IN
         CleanSegs(abs,
                   IF seg = "." THEN acc
                   ELSE IF seg = ".."
                        THEN IF acc # << >> /\ acc[Len(acc)] # ".." THEN Front(acc)
                             ELSE IF abs THEN acc ELSE Append(acc, "..")
                        ELSE Append(acc, seg),
                   Tail(segs))

\* filepath.Clean; the relative path without segments is "."
Clean(path) == Path(path.abs, CleanSegs(path.abs, << >>, path.segs))

\* filepath.IsAbs
IsAbs(path) == path.abs

\* strings.HasPrefix(path, ".."), of a cleaned path
HasPrefixDotDot(path) ==
    ~path.abs /\ path.segs # << >> /\ path.segs[1] \in {"..", "..a", "..json", "...json"}

\* filepath.Join(dir, key)
Join(dir, key) == Clean(Path(dir.abs, dir.segs \o key.segs))

RECURSIVE DotDots(_)
DotDots(n) == IF n = 0 THEN << >> ELSE <<"..">> \o DotDots(n - 1)

\* the length of the longest common prefix of two segment sequences
CommonPrefix(p, q) ==
    LET Agree == {n \in 0..Len(p) : n <= Len(q) /\ \A i \in 1..n : p[i] = q[i]}
    IN  CHOOSE n \in Agree : \A m \in Agree : m <= n

\* filepath.Rel(base, target) of two absolute cleaned paths
Rel(base, target) ==
    LET k == CommonPrefix(base.segs, target.segs)
    IN  Path(FALSE, DotDots(Len(base.segs) - k) \o SubSeq(target.segs, k + 1, Len(target.segs)))

\* a validateKey that looks at the key as given, without cleaning it
validateKeyUncleaned(key) ==
    IF key = Path(FALSE, << >>) THEN "ErrInvalidKey"
    ELSE IF IsAbs(key) THEN "ErrInvalidKey"
    ELSE IF key.segs = <<"..">> \/ key.segs = <<".">> THEN "ErrInvalidKey"
    ELSE IF HasPrefixDotDot(key) THEN "ErrInvalidKey"
    ELSE ""

\* fileStorage.validateKey
validateKey(key) ==
    IF key = Path(FALSE, << >>) THEN "ErrInvalidKey"
    ELSE IF IsAbs(key) THEN "ErrInvalidKey"
    ELSE LET cleanPath == Clean(key) IN
         IF cleanPath.segs = <<"..">> \/ cleanPath.segs = << >> THEN "ErrInvalidKey"
         ELSE IF HasPrefixDotDot(cleanPath) THEN "ErrInvalidKey"
         ELSE IF HasPrefixDotDot(Rel(Root, Join(Root, cleanPath))) THEN "ErrInvalidKey"
         ELSE ""

\* the root directory's file system: names bound to inodes, the inodes'
\* content, the directories, the next inode, the number of os.Open calls
EmptyDisk == [names |-> [n \in {} |-> 0], data |-> [i \in {} |-> << >>], dirs |-> {}, next |-> 1, opens |-> 0]

IdleCall == [pc |-> "idle"]

\* the root directory after an earlier Put of key "a"
StoredDisk ==
    [names |-> [n \in {<<"data", "a">>} |-> 1], data |-> [i \in {1} |-> <<"p", "p">>],
     dirs |-> {<<"data">>}, next |-> 2, opens |-> 0]

\* finalPath of a key
FinalPath(key) == Join(Root, Clean(key)).segs

\* filepath.Dir
Dir(name) == Front(name)

\* the name os.CreateTemp gives caller c's temp file in a directory
TmpPath(dir, c) == Append(dir, <<".tmp-1", ".tmp-2", ".tmp-3", ".tmp-4">>[c])

\* a directory and those above it
Ancestors(dir) == {SubSeq(dir, 1, n) : n \in 1..Len(dir)}

\* os.MkdirAll
osMkdirAll(d, dir) ==
    IF \E a \in Ancestors(dir) : a \in DOMAIN d.names
    THEN [d |-> d, err |-> "ENOTDIR"]
    ELSE [d |-> [d EXCEPT !.dirs = @ \cup Ancestors(dir)], err |-> ""]

\* os.CreateTemp: a new empty file under a fresh name
osCreateTemp(d, name) ==
    [d EXCEPT !.names = [n \in DOMAIN @ \cup {name} |-> IF n = name THEN d.next ELSE @[n]],
              !.data = [i \in DOMAIN @ \cup {d.next} |-> IF i = d.next THEN << >> ELSE @[i]],
              !.next = @ + 1]

\* a write of one chunk at the end of an open file
osWrite(d, inode, chunk) == [d EXCEPT !.data[inode] = Append(@, chunk)]

\* a removal that leaves the name in place
osRemoveNothing(d, name) == d

\* os.Remove of a name, which may be absent
osRemove(d, name) == [d EXCEPT !.names = [n \in DOMAIN @ \ {name} |-> @[n]]]

\* a rename that copies the source's content over the destination file
osRenameInPlace(d, old, new) ==
    IF new \in d.dirs THEN [d |-> d, err |-> "EISDIR"]
    ELSE IF new \notin DOMAIN d.names
    THEN [d |-> [d EXCEPT !.names = [n \in (DOMAIN @ \ {old}) \cup {new} |->
                                        IF n = new THEN d.names[old] ELSE @[n]]], err |-> ""]
    ELSE [d |-> [d EXCEPT !.names = [n \in DOMAIN @ \ {old} |-> @[n]],
                          !.data[d.names[new]] = d.data[d.names[old]]], err |-> ""]

\* os.Rename(old, new): the name new is bound to old's file in one step
osRename(d, old, new) ==
    IF new \in d.dirs THEN [d |-> d, err |-> "EISDIR"]
    ELSE [d |-> [d EXCEPT !.names = [n \in (DOMAIN @ \ {old}) \cup {new} |->
                                        IF n = new THEN d.names[old] ELSE @[n]]], err |-> ""]

\* os.Link(old, new)
osLink(d, old, new) ==
    IF new \in DOMAIN d.names \/ new \in d.dirs THEN [d |-> d, err |-> "EEXIST"]
    ELSE [d |-> [d EXCEPT !.names = [n \in DOMAIN @ \cup {new} |-> IF n = new THEN d.names[old] ELSE @[n]]],
          err |-> ""]

\* os.Open: the inode of a file, 0 for a directory
osOpen(d, name) ==
    LET opened == [d EXCEPT !.opens = @ + 1] IN
    IF name \in DOMAIN d.names THEN [d |-> opened, inode |-> d.names[name], err |-> ""]
    ELSE IF name \in d.dirs THEN [d |-> opened, inode |-> 0, err |-> ""]
    ELSE [d |-> opened, inode |-> 0, err |-> "ENOENT"]

\* the inodes some name or some open handle refers to keep their content
Sweep(d, cs) ==
    LET live == {d.names[n] : n \in DOMAIN d.names} \cup
                {cs[c].inode : c \in {x \in DOMAIN cs : cs[x].pc \in {"copy", "publish", "read"}}}
    IN  [d EXCEPT !.data = [i \in DOMAIN @ \cap live |-> @[i]]]

\* ------------------------------------------------------------------ stores

\* a batch store that accepts a batch it already holds
LogBatchStorePutAccepting(fs, logBatch, ioFail) ==
    LET key == FileKey("raw-batches", logBatch.CustomerID, logBatch.BatchID)
        put == putNoOverwrite(fs, key, logBatch, ioFail)
    IN  [fs |-> put.fs,
         err |-> IF put.err \in {"", "ErrFileAlreadyExists"} THEN "" ELSE "failed to put log batch"]

\* logBatchStore.Put
LogBatchStorePut(fs, logBatch, ioFail) ==
    LET key == FileKey("raw-batches", logBatch.CustomerID, logBatch.BatchID)
        put == putNoOverwrite(fs, key, logBatch, ioFail)
    IN  [fs |-> put.fs,
         err |-> CASE put.err = "" -> ""
                   [] put.err = "ErrFileAlreadyExists" -> "ErrLogBatchAlreadyExist"
                   [] OTHER -> "failed to put log batch"]

\* json.Marshal of a WindowAggregateResult
MarshalAggregate(agg) ==
    [customerId |-> agg.CustomerID, windowStart |-> FormatRFC3339(agg.WindowStart),
     windowSize |-> agg.WindowSize, requestsByPath |-> agg.RequestsByPath,
     requestsByUserAgent |-> agg.RequestsByUserAgent]

\* json.Unmarshal into a WindowAggregateResult
UnmarshalAggregate(data) ==
    [CustomerID |-> data.customerId, WindowStart |-> ParseRFC3339(data.windowStart),
     WindowSize |-> data.windowSize, RequestsByPath |-> data.requestsByPath,
     RequestsByUserAgent |-> data.requestsByUserAgent]

\* models.NewEmptyWindowAggregateResult
NewEmptyWindowAggregateResult(customerID, windowStart, w) ==
    [CustomerID |-> customerID, WindowStart |-> windowStart, WindowSize |-> w,
     RequestsByPath |-> EmptyMap, RequestsByUserAgent |-> EmptyMap]

\* an IsNewAggregate that holds of every aggregate
IsNewAggregateAlways(agg) == TRUE

\* WindowAggregateResult.IsNewAggregate
IsNewAggregate(agg) ==
    Cardinality(DOMAIN agg.RequestsByPath) = 0 /\ Cardinality(DOMAIN agg.RequestsByUserAgent) = 0

\* aggregateResultStore.getKey
getKey(customerID, windowStart, w) ==
    FileKey("aggregate-results", customerID, FormatWindowStart(w, windowStart))

\* a Get to which a missing file is a failure like any other
AggregateStoreGetStrict(fs, customerID, windowStart, w, ioFail) ==
    LET got == FileGet(fs, getKey(customerID, windowStart, w), ioFail) IN
    IF got.err = "" /\ "raw" \notin DOMAIN got.data
    THEN [agg |-> UnmarshalAggregate(got.data), err |-> ""]
    ELSE [agg |-> Nil, err |-> "failed to get aggregate result"]

\* aggregateResultStore.Get
AggregateStoreGet(fs, customerID, windowStart, w, ioFail) ==
    LET got == FileGet(fs, getKey(customerID, windowStart, w), ioFail) IN
    CASE got.err = "" ->
            IF "raw" \in DOMAIN got.data
            THEN [agg |-> Nil, err |-> "failed to unmarshal aggregate result"]
            ELSE [agg |-> UnmarshalAggregate(got.data), err |-> ""]
      [] got.err = "ErrFileNotFound" ->
            [agg |-> NewEmptyWindowAggregateResult(customerID, windowStart, w), err |-> ""]
      [] OTHER -> [agg |-> Nil, err |-> "failed to get aggregate result"]

\* an upsert that never replaces a stored aggregate
AggregateStoreUpsertOnce(fs, agg, ioFail) ==
    LET put == putNoOverwrite(fs, getKey(agg.CustomerID, agg.WindowStart, agg.WindowSize),
                              MarshalAggregate(agg), ioFail)
    IN  [fs |-> put.fs, err |-> IF put.err = "" THEN "" ELSE "failed to put aggregate result"]

\* aggregateResultStore.Upsert
AggregateStoreUpsert(fs, agg, ioFail) ==
    LET put == putOverwrite(fs, getKey(agg.CustomerID, agg.WindowStart, agg.WindowSize),
                            MarshalAggregate(agg), ioFail)
    IN  [fs |-> put.fs, err |-> IF put.err = "" THEN "" ELSE "failed to put aggregate result"]

\* ------------------------------------------------------------- aggregators

\* a merge that assigns the partial counts instead of adding them
MergeCountsOverwrite(agg, partial, keys) ==
    [k \in DOMAIN agg \cup keys |-> IF k \in keys THEN partial[k] ELSE agg[k]]

RECURSIVE MergeCounts(_, _, _)
\* for k, v := range partial { agg[k] += v }, over the keys still to visit
MergeCounts(agg, partial, keys) ==
    IF keys = {} THEN agg
    ELSE LET k == CHOOSE x \in keys : TRUE IN
         MergeCounts(MapAdd(agg, k, partial[k]), partial, keys \ {k})

\* a Rollup that merges the paths and leaves the user agents alone
RollupPathsOnly(agg, partial) ==
    IF \/ agg.CustomerID # partial.CustomerID
       \/ ~TimeEqual(agg.WindowStart, partial.WindowStart)
       \/ agg.WindowSize # partial.WindowSize
    THEN [agg |-> agg, err |-> "identity mismatch"]
    ELSE [agg |-> [agg EXCEPT
                     !.RequestsByPath =
                         MergeCounts(@, partial.RequestsByPath, DOMAIN partial.RequestsByPath)],
          err |-> ""]

\* a Rollup that replaces the aggregate's counts by the partial's
RollupReplace(agg, partial) ==
    IF \/ agg.CustomerID # partial.CustomerID
       \/ ~TimeEqual(agg.WindowStart, partial.WindowStart)
       \/ agg.WindowSize # partial.WindowSize
    THEN [agg |-> agg, err |-> "identity mismatch"]
    ELSE [agg |-> [agg EXCEPT !.RequestsByPath = partial.RequestsByPath,
                              !.RequestsByUserAgent = partial.RequestsByUserAgent],
          err |-> ""]

\* a Rollup that merges whatever the identities are
RollupUnchecked(agg, partial) ==
    [agg |-> [agg EXCEPT
                !.RequestsByPath =
                    MergeCounts(@, partial.RequestsByPath, DOMAIN partial.RequestsByPath),
                !.RequestsByUserAgent =
                    MergeCounts(@, partial.RequestsByUserAgent,
                                DOMAIN partial.RequestsByUserAgent)],
     err |-> ""]

\* aggregateRolluper.Rollup: the aggregate after the call and its error
Rollup(agg, partial) ==
    CASE agg.CustomerID # partial.CustomerID -> [agg |-> agg, err |-> "customerID mismatch"]
      [] ~TimeEqual(agg.WindowStart, partial.WindowStart) ->
            [agg |-> agg, err |-> "windowStart mismatch"]
      [] agg.WindowSize # partial.WindowSize -> [agg |-> agg, err |-> "windowSize mismatch"]
      [] OTHER ->
            [agg |-> [agg EXCEPT
                        !.RequestsByPath =
                            MergeCounts(@, partial.RequestsByPath, DOMAIN partial.RequestsByPath),
                        !.RequestsByUserAgent =
                            MergeCounts(@, partial.RequestsByUserAgent,
                                        DOMAIN partial.RequestsByUserAgent)],
             err |-> ""]

\* ------------------------------------------------------------------ streams

\* the PartialInsightEvent Produce builds for one window key of a summary
PartialInsightEvent(batchSummary, windowKey) ==
    [CustomerID |-> batchSummary.CustomerID, BatchID |-> batchSummary.BatchID,
     WindowStart |-> ParseRFC3339(windowKey), WindowSize |-> batchSummary.WindowSize,
     RequestsByPath |-> batchSummary.ByWindowStart[windowKey].RequestsByPath,
     RequestsByUserAgent |-> batchSummary.ByWindowStart[windowKey].RequestsByUserAgent]

\* a partition key that also carries the batch ("/b" for a caller's
\* idempotency key, "/u" for a generated id)
partitionKeyWithBatch(event) ==
    BucketID(event.WindowSize, event.WindowStart)
        \o <<47, IF event.BatchID = "batch-0001" THEN 98 ELSE 117>>

\* Produce's partition key of an event
partitionKey(event) == BucketID(event.WindowSize, event.WindowStart)

\* the bucket ids of the sixty minutes and the twenty-four hours
BucketIDs ==
    {BucketID(WindowMinute, Time(60 * m, 0)) : m \in 0..59}
        \cup {BucketID(WindowHour, Time(3600 * h, 0)) : h \in 0..23}

\* partitionIndex of every bucket id, computed once
BucketLanes == [key \in BucketIDs |-> partitionIndex(key, numPartitions)]

\* the lane PartitionedQueue.Publish sends to
PublishLane(key) ==
    IF key \in BucketIDs THEN BucketLanes[key] ELSE partitionIndex(key, numPartitions)

\* a queued message: the event, and (history) its number among the messages
\* published to its lane
Message(event, seq) == [event |-> event, seq |-> seq]

\* a send that puts the message at the front of the lane
EnqueueFront(lane, msg) == <<msg>> \o lane

\* the channel send of Publish
Enqueue(lane, msg) == Append(lane, msg)

\* a send that never waits for room in the lane
SendAlways(lane) == TRUE

\* `queue.partitions[idx] <- msg` can proceed: the lane's buffer has room
SendReady(lane) == Len(lane) < buffer

\* every worker reading the first lane
WorkerLaneShared(p) == 0

\* the lane whose channel Start hands to worker p
WorkerLane(p) == p

\* the zero value a receive from a closed, drained channel yields
ZeroEvent ==
    [CustomerID |-> "", BatchID |-> "", WindowStart |-> Time(0, 0), WindowSize |-> "",
     RequestsByPath |-> EmptyMap, RequestsByUserAgent |-> EmptyMap]

\* `event, _ := <-ch`: the message a receive yields, from the head of the lane
\* or, when the lane is closed and drained, the zero value
Receive(lane) == IF lane # << >> THEN Head(lane) ELSE Message(ZeroEvent, 0)

\* close(stopCh) without the sync.Once: closing a closed channel panics
closeStopCh(fired) == [stopCh |-> TRUE, panic |-> fired]

\* stopOnce.Do(func() { close(consumer.stopCh) }): the stop channel after
\* it, and whether the call panicked
stopOnce(fired) == [stopCh |-> TRUE, panic |-> FALSE]

\* a Stop that does not wait for the workers
wgNoWait(w) == TRUE

\* wg.Wait() may return: every worker goroutine has called wg.Done
wgWait(w) == \A p \in DOMAIN w : w[p].pc = "exited"

\* a worker without recover(): the panic ends it, nothing is counted
OnPanicCrash(counter) == [consumed |-> counter, worker |-> [pc |-> "exited"]]

\* the worker's recover() after a panic in Aggregate: the consumed counter and
\* the worker's continuation
OnPanic(counter) == [consumed |-> MapAdd(counter, "SYS_9000", 1), worker |-> [pc |-> "select"]]

\* -------------------------------------------------------------------- state

VARIABLES
    windowSize,   \* aggregation.window_size of the configuration
    app,          \* App lifecycle: "running", "draining", "cancelled", "stopping", "stopped"
    ctxDone,      \* the background context of the consumers is cancelled
    stopCh,       \* the consumer's stop channel is closed
    files,        \* the file storage: final path -> content
    lanes,        \* PartitionedQueue.partitions: lane -> queued events
    req,          \* the IngestBatch calls: their position and locals
    worker,       \* the partition workers: their position and locals
    ulids,        \* number of ULIDs generated for batch ids
    faults,       \* number of failures injected so far
    published,    \* stream_partial_insight_published_total
    consumed,     \* stream_partial_insight_consumed_total by error code
    ingested,     \* ingestion_batch_ingested_total by error code
    created,      \* aggregation_window_aggregate_created_total by bucket id
    sent,         \* history: lane -> number of events published to it
    taken,        \* history: worker -> number of events it has dequeued
    pool,         \* events still to deliver (rollup and consumer specifications)
    delivered,    \* history: events delivered so far (rollup specification only)
    closed,       \* PartitionedQueue.Close has closed the lanes
    stops,        \* the callers of partialInsightConsumer.Stop: their position
    disk,         \* the storage root directory in detail (storage specification only)
    fileCalls,    \* the FileStorage calls in progress (storage specification only)
    input         \* the arguments of the IngestBatch call (ingest specification only)

\* the variables only the consumer, storage and ingest specifications change
side == <<closed, stops, disk, fileCalls, input>>

vars == <<windowSize, app, ctxDone, stopCh, files, lanes, req, worker, ulids, faults,
          published, consumed, ingested, created, sent, taken, pool, delivered,
          closed, stops, disk, fileCalls, input>>

Requests == 1..MaxRequests
Partitions == 0..(numPartitions - 1)
StopCallers == 1..MaxStops

Idle == [pc |-> "idle"]
Done(code) == [pc |-> "done", result |-> code, ret |-> Nil]
Selecting == [pc |-> "select"]
Exited == [pc |-> "exited"]

\* the queue open, nobody in Stop, the storage and ingest specifications at rest
SideIdle ==
    /\ closed = FALSE
    /\ stops = [c \in StopCallers |-> "idle"]
    /\ disk = EmptyDisk
    /\ fileCalls = [c \in Callers |-> IdleCall]
    /\ input = Nil

Init ==
    /\ windowSize \in {WindowMinute, WindowHour}
    /\ app = "running"
    /\ ctxDone = FALSE
    /\ stopCh = FALSE
    /\ files = [k \in {} |-> Nil]
    /\ lanes = [p \in Partitions |-> << >>]
    /\ req = [r \in Requests |-> Idle]
    /\ worker = [p \in Partitions |-> Selecting]
    /\ ulids = 0
    /\ faults = 0
    /\ published = 0
    /\ consumed = EmptyMap
    /\ ingested = EmptyMap
    /\ created = EmptyMap
    /\ sent = [p \in Partitions |-> 0]
    /\ taken = [p \in Partitions |-> 0]
    /\ pool = {}
    /\ delivered = {}
    /\ SideIdle

\* a failure may be injected while the budget lasts
MayFail(ioFail) == ioFail => faults < MaxFaults
Charge(ioFail) == IF ioFail THEN faults + 1 ELSE faults

\* ------------------------------------------------------- ingestionService

\* the record of a returned call: its error code and (history) its arguments
Returned(code, key, logBatch) ==
    [pc |-> "done", result |-> code, ret |-> Nil, key |-> key,
     customerID |-> logBatch.CustomerID, batchID |-> logBatch.BatchID]

\* IngestBatch up to batchStore.Put's link: validation, the choice of the
\* batch id, and the temp file of putNoOverwrite
IngestBatch(r, customerID, idempotencyKey, format, body) ==
    /\ app = "running"
    /\ req[r].pc = "idle"
    /\ r > 1 => req[r - 1].pc # "idle"
    /\ LET code == validateLogBatch(customerID, format, body)
           trimmed == TrimSpace(idempotencyKey)
           fresh == code = "" /\ trimmed = ""
           batchID == IF trimmed = "" THEN NewULID(ulids + 1) ELSE trimmed
       IN  /\ req' = [req EXCEPT ![r] =
                        IF code # "" THEN Done(code)
                        ELSE [pc |-> "put", key |-> trimmed,
                              logBatch |-> LogBatch(batchID, customerID, parseJSON(body))]]
           /\ ulids' = IF fresh THEN ulids + 1 ELSE ulids
    /\ UNCHANGED <<windowSize, app, ctxDone, stopCh, files, lanes, worker, faults,
                   published, consumed, ingested, created, sent, taken, pool, delivered, side>>

\* IngestBatch: the link of batchStore.Put, then Summarize
IngestPut(r, ioFail) ==
    /\ req[r].pc = "put"
    /\ MayFail(ioFail)
    /\ LET logBatch == req[r].logBatch
           put == LogBatchStorePut(files, logBatch, ioFail)
           batchSummary == Summarize(logBatch, windowSize)
       IN  /\ files' = put.fs
           /\ req' = [req EXCEPT ![r] =
                        CASE put.err = "" ->
                                [pc |-> "produce", key |-> req[r].key, logBatch |-> logBatch,
                                 batchSummary |-> batchSummary,
                                 todo |-> DOMAIN batchSummary.ByWindowStart]
                          [] put.err = "ErrLogBatchAlreadyExist" ->
                                Returned("ING_1001", req[r].key, logBatch)
                          [] OTHER -> Returned("ING_9000", req[r].key, logBatch)]
           /\ ingested' = IF put.err = "ErrLogBatchAlreadyExist"
                          THEN MapAdd(ingested, "ING_1001", 1) ELSE ingested
    /\ faults' = Charge(ioFail)
    /\ UNCHANGED <<windowSize, app, ctxDone, stopCh, lanes, worker, ulids,
                   published, consumed, created, sent, taken, pool, delivered, side>>

\* an IngestBatch that deletes the stored batch when Produce fails
OnProduceErrorRollback(fs, logBatch) ==
    LET key == FileKey("raw-batches", logBatch.CustomerID, logBatch.BatchID)
    IN  [k \in DOMAIN fs \ {key} |-> fs[k]]

\* IngestBatch when Produce fails: the error is returned, the batch store is
\* not called again
OnProduceError(fs, logBatch) == fs

\* one iteration of Produce's loop over the summary's windows, in the map's
\* iteration order: the context check, Publish (which blocks while the lane
\* is full), and IngestBatch's return after the last window
IngestPublish(r, windowKey, cancelled) ==
    /\ req[r].pc = "produce"
    /\ windowKey \in req[r].todo
    /\ MayFail(cancelled)
    /\ LET event == PartialInsightEvent(req[r].batchSummary, windowKey)
           lane == PublishLane(partitionKey(event))
           rest == req[r].todo \ {windowKey}
           admitted(code) == [pc |-> "done", result |-> code,
                              ret |-> IF code = "" THEN IngestResult("", 0) ELSE Nil,
                              key |-> req[r].key,
                              customerID |-> req[r].logBatch.CustomerID,
                              batchID |-> req[r].logBatch.BatchID,
                              logBatch |-> req[r].logBatch]
       IN  IF cancelled
           THEN /\ req' = [req EXCEPT ![r] = admitted("ING_9001")]
                /\ files' = OnProduceError(files, req[r].logBatch)
                /\ UNCHANGED <<lanes, sent, published, ingested>>
           ELSE /\ SendReady(lanes[lane])
                /\ files' = files
                /\ lanes' = [lanes EXCEPT ![lane] = Enqueue(@, Message(event, sent[lane] + 1))]
                /\ sent' = [sent EXCEPT ![lane] = @ + 1]
                /\ published' = published + 1
                /\ req' = [req EXCEPT ![r] =
                             IF rest = {} THEN admitted("") ELSE [@ EXCEPT !.todo = rest]]
                /\ ingested' = IF rest = {} THEN MapAdd(ingested, "", 1) ELSE ingested
    /\ faults' = Charge(cancelled)
    /\ UNCHANGED <<windowSize, app, ctxDone, stopCh, worker, ulids,
                   consumed, created, taken, pool, delivered, side>>

\* ------------------------------------------------- partialInsightConsumer

\* history: the receives worker p has made from its closed, drained lane
ClosedReceives(p) == taken[p] - (sent[WorkerLane(p)] - Len(lanes[WorkerLane(p)]))

\* runPartitionWorker's select takes the next event of its lane (Go chooses
\* among the ready cases at random, so this may happen after a stop signal)
WorkerReceive(p) ==
    /\ worker[p].pc = "select"
    /\ IF lanes[WorkerLane(p)] # << >> THEN TRUE
       ELSE closed /\ ClosedReceives(p) < MaxClosedReceives
    /\ worker' = [worker EXCEPT ![p] =
                    [pc |-> "aggregate", event |-> Receive(lanes[WorkerLane(p)]).event,
                     seq |-> Receive(lanes[WorkerLane(p)]).seq]]
    /\ lanes' = [lanes EXCEPT ![WorkerLane(p)] = IF @ # << >> THEN Tail(@) ELSE @]
    /\ taken' = [taken EXCEPT ![p] = @ + 1]
    /\ UNCHANGED <<windowSize, app, ctxDone, stopCh, files, req, ulids, faults,
                   published, consumed, ingested, created, sent, pool, delivered, side>>

\* runPartitionWorker's select sees the cancelled context or the closed stop channel
WorkerExit(p) ==
    /\ worker[p].pc = "select"
    /\ ctxDone \/ stopCh
    /\ worker' = [worker EXCEPT ![p] = Exited]
    /\ UNCHANGED <<windowSize, app, ctxDone, stopCh, files, lanes, req, ulids, faults,
                   published, consumed, ingested, created, sent, taken, pool, delivered, side>>

\* Aggregate up to the rollup: BucketID for the debug log, aggregateStore.Get
\* and IsNewAggregate on its result (a nil result panics; the worker recovers
\* and counts SYS_9000)
WorkerGet(p, ioFail) ==
    /\ worker[p].pc = "aggregate"
    /\ MayFail(ioFail)
    /\ LET event == worker[p].event
           got == AggregateStoreGet(files, event.CustomerID, event.WindowStart,
                                    event.WindowSize, ioFail)
           panics == Duration(event.WindowSize) = -1 \/ got.agg = Nil
       IN  IF panics
           THEN /\ consumed' = OnPanic(consumed).consumed
                /\ worker' = [worker EXCEPT ![p] = OnPanic(consumed).worker]
           ELSE /\ worker' = [worker EXCEPT ![p] =
                                [pc |-> "upsert", event |-> event, seq |-> worker[p].seq,
                                 aggregateResult |-> got.agg]]
                /\ UNCHANGED consumed
    /\ faults' = Charge(ioFail)
    /\ UNCHANGED <<windowSize, app, ctxDone, stopCh, files, lanes, req, ulids,
                   published, ingested, created, sent, taken, pool, delivered, side>>

\* Aggregate from the rollup on: Rollup, aggregateStore.Upsert and the created
\* counter; the file system, the error code and the created counter after it
AggregateFrom(fs, counter, aggregateResult, event, ioFail) ==
    LET isNewAggregate == IsNewAggregate(aggregateResult)
        rolled == Rollup(aggregateResult, event)
        put == AggregateStoreUpsert(fs, rolled.agg, ioFail)
    IN  CASE rolled.err # "" -> [fs |-> fs, code |-> "AGG_9000", created |-> counter]
          [] put.err # "" -> [fs |-> fs, code |-> "AGG_9001", created |-> counter]
          [] OTHER ->
                [fs |-> put.fs, code |-> "",
                 created |-> IF isNewAggregate
                             THEN MapAdd(counter, BucketID(event.WindowSize, event.WindowStart), 1)
                             ELSE counter]

\* the rest of Aggregate, and the worker's consumed counter for the returned error
WorkerUpsert(p, ioFail) ==
    /\ worker[p].pc = "upsert"
    /\ MayFail(ioFail)
    /\ LET done == AggregateFrom(files, created, worker[p].aggregateResult, worker[p].event, ioFail)
       IN  /\ files' = done.fs
           /\ created' = done.created
           /\ consumed' = MapAdd(consumed, done.code, 1)
           /\ faults' = IF done.code = "AGG_9000" THEN faults ELSE Charge(ioFail)
    /\ worker' = [worker EXCEPT ![p] = Selecting]
    /\ UNCHANGED <<windowSize, app, ctxDone, stopCh, lanes, req, ulids,
                   published, ingested, sent, taken, pool, delivered, side>>

\* ------------------------------------------------------------ App.Shutdown

\* server.Shutdown is called: no new request is accepted
ShutdownServer ==
    /\ app = "running"
    /\ app' = "draining"
    /\ UNCHANGED <<windowSize, ctxDone, stopCh, files, lanes, req, worker, ulids, faults,
                   published, consumed, ingested, created, sent, taken, pool, delivered, side>>

\* a server.Shutdown that returns while handlers are still running
serverShutdownAbrupt(rq) == TRUE

\* server.Shutdown(ctx) may return nil: no request is in flight
serverShutdown(rq) == \A r \in Requests : rq[r].pc \in {"idle", "done"}

\* server.Shutdown returns once no request is in flight; backgroundCancel()
ShutdownCancel ==
    /\ app = "draining"
    /\ serverShutdown(req)
    /\ app' = "cancelled"
    /\ ctxDone' = TRUE
    /\ UNCHANGED <<windowSize, stopCh, files, lanes, req, worker, ulids, faults,
                   published, consumed, ingested, created, sent, taken, pool, delivered, side>>

\* partialInsightConsumer.Stop closes the stop channel
ConsumerStop ==
    /\ app = "cancelled"
    /\ app' = "stopping"
    /\ stopCh' = TRUE
    /\ UNCHANGED <<windowSize, ctxDone, files, lanes, req, worker, ulids, faults,
                   published, consumed, ingested, created, sent, taken, pool, delivered, side>>

\* partialInsightConsumer.Stop returns from wg.Wait once every worker has exited
ConsumerStopReturn ==
    /\ app = "stopping"
    /\ \A p \in Partitions : worker[p].pc = "exited"
    /\ app' = "stopped"
    /\ UNCHANGED <<windowSize, ctxDone, stopCh, files, lanes, req, worker, ulids, faults,
                   published, consumed, ingested, created, sent, taken, pool, delivered, side>>

Next ==
    \/ \E r \in Requests, c \in CustomerIDs, k \in IdempotencyKeys, f \in Formats, b \in Bodies :
          IngestBatch(r, c, k, f, b)
    \/ \E r \in Requests, ioFail \in BOOLEAN : IngestPut(r, ioFail)
    \/ \E r \in Requests, windowKey \in WindowKeys, cancelled \in BOOLEAN :
          IngestPublish(r, windowKey, cancelled)
    \/ \E p \in Partitions : WorkerReceive(p)
    \/ \E p \in Partitions : WorkerExit(p)
    \/ \E p \in Partitions, ioFail \in BOOLEAN : WorkerGet(p, ioFail)
    \/ \E p \in Partitions, ioFail \in BOOLEAN : WorkerUpsert(p, ioFail)
    \/ ShutdownServer
    \/ ShutdownCancel
    \/ ConsumerStop
    \/ ConsumerStopReturn

Spec == Init /\ [][Next]_vars

\* --------------------------------------------- Aggregate, called in any order

\* events of one aggregate key (one customer, one window), as Produce builds
\* them from batch summaries: differing batches, paths, user agents and counts
RollupEvents(w) ==
    LET event(batchID, byPath, byUA) ==
            [CustomerID |-> "cus-axon", BatchID |-> batchID,
             WindowStart |-> Truncate(Time(64995, 0), Duration(w)), WindowSize |-> w,
             RequestsByPath |-> byPath, RequestsByUserAgent |-> byUA]
        one(k, n) == MapAdd(EmptyMap, k, n)
    IN  { event("b1", one("GET /", 1), one("Chrome", 1)),
          event("b2", MapAdd(one("GET /", 2), "GET /about", 1), MapAdd(one("Chrome", 2), "Firefox", 1)),
          event("b3", one("GET /about", 3), one("curl/8.0", 3)),
          event("b4", one("POST /login", 1), one("Firefox", 1)),
          event("b5", MapAdd(one("GET /", 1), "POST /login", 2), one("Chrome", 3)) }

\* no stored aggregate, the pipeline idle, and some set of events to deliver
InitRollup ==
    /\ windowSize \in {WindowMinute, WindowHour}
    /\ app = "running"
    /\ ctxDone = FALSE
    /\ stopCh = FALSE
    /\ files = [k \in {} |-> Nil]
    /\ lanes = [p \in Partitions |-> << >>]
    /\ req = [r \in Requests |-> Idle]
    /\ worker = [p \in Partitions |-> Selecting]
    /\ ulids = 0
    /\ faults = 0
    /\ published = 0
    /\ consumed = EmptyMap
    /\ ingested = EmptyMap
    /\ created = EmptyMap
    /\ sent = [p \in Partitions |-> 0]
    /\ taken = [p \in Partitions |-> 0]
    /\ pool \in (SUBSET RollupEvents(windowSize)) \ {{}}
    /\ delivered = {}
    /\ SideIdle

\* aggregationService.Aggregate on one event of the pool, start to return,
\* with no store failure
Aggregate(event) ==
    /\ event \in pool
    /\ LET got == AggregateStoreGet(files, event.CustomerID, event.WindowStart,
                                    event.WindowSize, FALSE)
           done == AggregateFrom(files, created, got.agg, event, FALSE)
       IN  /\ files' = done.fs
           /\ created' = done.created
           /\ consumed' = MapAdd(consumed, done.code, 1)
    /\ pool' = pool \ {event}
    /\ delivered' = delivered \cup {event}
    /\ UNCHANGED <<windowSize, app, ctxDone, stopCh, lanes, req, worker, ulids, faults,
                   published, ingested, sent, taken, side>>

NextRollup == \E event \in pool : Aggregate(event)

SpecRollup == InitRollup /\ [][NextRollup]_vars

\* ------------------------------------------ queue and consumer on their own

\* events for the queue: two batches of one aggregate key, which share a lane
QueueEvents(w) ==
    LET event(batchID, sec, path, ua) ==
            [CustomerID |-> "cus-axon", BatchID |-> batchID,
             WindowStart |-> Truncate(Time(sec, 0), Duration(w)), WindowSize |-> w,
             RequestsByPath |-> MapAdd(EmptyMap, path, 1),
             RequestsByUserAgent |-> MapAdd(EmptyMap, ua, 1)]
    IN  { event("b1", 64995, "GET /", "Chrome"),
          event("b2", 65025, "GET /about", "Firefox") }

\* PartitionedQueue.Publish of an event, with Produce's partition key; it
\* blocks while the lane is full (a send on a closed lane is left out)
Publish(event) ==
    /\ event \in pool
    /\ ~closed
    /\ LET lane == PublishLane(partitionKey(event)) IN
       /\ SendReady(lanes[lane])
       /\ lanes' = [lanes EXCEPT ![lane] = Enqueue(@, Message(event, sent[lane] + 1))]
       /\ sent' = [sent EXCEPT ![lane] = @ + 1]
    /\ published' = published + 1
    /\ pool' = pool \ {event}
    /\ UNCHANGED <<windowSize, app, ctxDone, stopCh, files, req, worker, ulids, faults,
                   consumed, ingested, created, taken, delivered, closed, stops,
                   disk, fileCalls, input>>

\* PartitionedQueue.Close: close(ch) for every lane
Close ==
    /\ ~closed
    /\ closed' = TRUE
    /\ UNCHANGED <<windowSize, app, ctxDone, stopCh, files, lanes, req, worker, ulids, faults,
                   published, consumed, ingested, created, sent, taken, pool, delivered,
                   stops, disk, fileCalls, input>>

\* the context given to Start is cancelled
CancelContext ==
    /\ ~ctxDone
    /\ ctxDone' = TRUE
    /\ UNCHANGED <<windowSize, app, stopCh, files, lanes, req, worker, ulids, faults,
                   published, consumed, ingested, created, sent, taken, pool, delivered, side>>

\* partialInsightConsumer.Stop, up to wg.Wait
Stop(c) ==
    /\ stops[c] = "idle"
    /\ stopCh' = stopOnce(stopCh).stopCh
    /\ stops' = [stops EXCEPT ![c] = IF stopOnce(stopCh).panic THEN "panicked" ELSE "waiting"]
    /\ UNCHANGED <<windowSize, app, ctxDone, files, lanes, req, worker, ulids, faults,
                   published, consumed, ingested, created, sent, taken, pool, delivered,
                   closed, disk, fileCalls, input>>

\* partialInsightConsumer.Stop returns from wg.Wait
StopReturn(c) ==
    /\ stops[c] = "waiting"
    /\ wgWait(worker)
    /\ stops' = [stops EXCEPT ![c] = "returned"]
    /\ UNCHANGED <<windowSize, app, ctxDone, stopCh, files, lanes, req, worker, ulids, faults,
                   published, consumed, ingested, created, sent, taken, pool, delivered,
                   closed, disk, fileCalls, input>>

\* after Start: every worker at its select, the queue empty and open
InitConsumer ==
    /\ windowSize \in {WindowMinute, WindowHour}
    /\ app = "running"
    /\ ctxDone = FALSE
    /\ stopCh = FALSE
    /\ files = [k \in {} |-> Nil]
    /\ lanes = [p \in Partitions |-> << >>]
    /\ req = [r \in Requests |-> Idle]
    /\ worker = [p \in Partitions |-> Selecting]
    /\ ulids = 0
    /\ faults = 0
    /\ published = 0
    /\ consumed = EmptyMap
    /\ ingested = EmptyMap
    /\ created = EmptyMap
    /\ sent = [p \in Partitions |-> 0]
    /\ taken = [p \in Partitions |-> 0]
    /\ pool = QueueEvents(windowSize)
    /\ delivered = {}
    /\ SideIdle

NextConsumer ==
    \/ \E event \in QueueEvents(WindowMinute) \cup QueueEvents(WindowHour) : Publish(event)
    \/ Close
    \/ CancelContext
    \/ \E c \in StopCallers : Stop(c)
    \/ \E c \in StopCallers : StopReturn(c)
    \/ \E p \in Partitions : WorkerReceive(p)
    \/ \E p \in Partitions : WorkerExit(p)
    \/ \E p \in Partitions, ioFail \in BOOLEAN : WorkerGet(p, ioFail)
    \/ \E p \in Partitions, ioFail \in BOOLEAN : WorkerUpsert(p, ioFail)

SpecConsumer == InitConsumer /\ [][NextConsumer]_vars

\* a worker that holds an event carries its Aggregate call through
WorkerAggregate(p) ==
    \E ioFail \in BOOLEAN : WorkerGet(p, ioFail) \/ WorkerUpsert(p, ioFail)

\* the scheduler runs every goroutine that can take a step, and a select
\* whose stop case is ready again and again eventually takes it
SpecConsumerFair ==
    /\ SpecConsumer
    /\ \A p \in Partitions : WF_vars(WorkerAggregate(p)) /\ SF_vars(WorkerExit(p))

\* ------------------------------------------------- file storage on its own

\* what a FileStorage call leaves alone
pipeline == <<windowSize, app, ctxDone, stopCh, files, lanes, req, worker, ulids,
              published, consumed, ingested, created, sent, taken, pool, delivered,
              closed, stops, input>>

\* the record of a returned Put
PutDone(key, err) == [pc |-> "done", op |-> "put", key |-> key, err |-> err]

\* the record of a returned Get, and of the returned reader once read to its end
GetDone(key, seen, err) == [pc |-> "done", op |-> "get", key |-> key, seen |-> seen, err |-> err]

\* callers start in turn
MayStart(c) == fileCalls[c].pc = "idle" /\ \A b \in Callers : b < c => fileCalls[b].pc # "idle"

\* fileStorage.Put up to io.Copy: validateKey, MkdirAll, CreateTemp; ioFail
\* is a CreateTemp that fails
StoragePut(c, key, content, allowOverwrite, ioFail) ==
    /\ MayStart(c)
    /\ MayFail(ioFail)
    /\ faults' = Charge(ioFail)
    /\ IF validateKey(key) # ""
       THEN /\ ~ioFail
            /\ fileCalls' = [fileCalls EXCEPT ![c] = PutDone(key, validateKey(key))]
            /\ disk' = disk
       ELSE LET finalPath == FinalPath(key)
                made == osMkdirAll(disk, Dir(finalPath))
            IN  IF made.err # ""
                THEN /\ ~ioFail
                     /\ fileCalls' = [fileCalls EXCEPT ![c] = PutDone(key, made.err)]
                     /\ disk' = made.d
                ELSE IF ioFail
                THEN /\ fileCalls' = [fileCalls EXCEPT ![c] = PutDone(key, "EIO")]
                     /\ disk' = made.d
                ELSE /\ fileCalls' = [fileCalls EXCEPT ![c] =
                            [pc |-> "copy", op |-> "put", key |-> key, content |-> content,
                             allowOverwrite |-> allowOverwrite, inode |-> made.d.next]]
                     /\ disk' = osCreateTemp(made.d, TmpPath(Dir(finalPath), c))
    /\ UNCHANGED pipeline

\* io.Copy(tmp, r), one chunk at a time; on an error the deferred function
\* closes and removes the temp file
StorageCopy(c, ioFail) ==
    /\ fileCalls[c].pc = "copy"
    /\ MayFail(ioFail)
    /\ faults' = Charge(ioFail)
    /\ LET call == fileCalls[c]
           tmpPath == TmpPath(Dir(FinalPath(call.key)), c)
           written == Len(disk.data[call.inode])
       IN  IF ioFail
           THEN LET cs == [fileCalls EXCEPT ![c] = PutDone(call.key, "EIO")]
                IN  /\ fileCalls' = cs
                    /\ disk' = Sweep(osRemove(disk, tmpPath), cs)
           ELSE /\ disk' = osWrite(disk, call.inode, call.content[written + 1])
                /\ fileCalls' = [fileCalls EXCEPT ![c].pc =
                                    IF written + 1 = Len(call.content) THEN "publish" ELSE "copy"]
    /\ UNCHANGED pipeline

\* tmp.Sync, tmp.Close, then os.Rename (putOverwrite) or os.Link
\* (putNoOverwrite), then the removal of the temp name
StoragePublish(c, ioFail) ==
    /\ fileCalls[c].pc = "publish"
    /\ MayFail(ioFail)
    /\ faults' = Charge(ioFail)
    /\ LET call == fileCalls[c]
           finalPath == FinalPath(call.key)
           tmpPath == TmpPath(Dir(finalPath), c)
           moved == IF call.allowOverwrite THEN osRename(disk, tmpPath, finalPath)
                    ELSE osLink(disk, tmpPath, finalPath)
           err == IF ioFail THEN "EIO"
                  ELSE IF moved.err = "EEXIST" THEN "ErrFileAlreadyExists"
                  ELSE moved.err
           cs == [fileCalls EXCEPT ![c] = PutDone(call.key, err)]
       IN  /\ fileCalls' = cs
           /\ disk' = Sweep(osRemove(IF ioFail THEN disk ELSE moved.d, tmpPath), cs)
    /\ UNCHANGED pipeline

\* fileStorage.Get: validateKey, os.Open; the caller holds the open file
StorageGet(c, key, ioFail) ==
    /\ MayStart(c)
    /\ MayFail(ioFail)
    /\ faults' = Charge(ioFail)
    /\ IF validateKey(key) # ""
       THEN /\ ~ioFail
            /\ fileCalls' = [fileCalls EXCEPT ![c] = GetDone(key, << >>, validateKey(key))]
            /\ disk' = disk
       ELSE LET opened == osOpen(disk, Join(Root, key).segs)
            IN  /\ disk' = opened.d
                /\ fileCalls' = [fileCalls EXCEPT ![c] =
                       IF ioFail THEN GetDone(key, << >>, "EIO")
                       ELSE IF opened.err = "ENOENT" THEN GetDone(key, << >>, "ErrFileNotFound")
                       ELSE [pc |-> "read", op |-> "get", key |-> key, inode |-> opened.inode,
                             seen |-> << >>]]
    /\ UNCHANGED pipeline

\* the caller of Get reads the file it was given, a chunk at a time, to the
\* end, and closes it
StorageRead(c, ioFail) ==
    /\ fileCalls[c].pc = "read"
    /\ MayFail(ioFail)
    /\ faults' = Charge(ioFail)
    /\ LET call == fileCalls[c]
           cs(done) == [fileCalls EXCEPT ![c] = done]
       IN  IF call.inode = 0
           THEN /\ ~ioFail
                /\ fileCalls' = cs(GetDone(call.key, call.seen, "EISDIR"))
                /\ disk' = disk
           ELSE IF ioFail
           THEN /\ fileCalls' = cs(GetDone(call.key, call.seen, "EIO"))
                /\ disk' = Sweep(disk, cs(IdleCall))
           ELSE IF Len(call.seen) < Len(disk.data[call.inode])
           THEN /\ fileCalls' = [fileCalls EXCEPT ![c].seen = Append(@, disk.data[call.inode][Len(@) + 1])]
                /\ disk' = disk
           ELSE /\ fileCalls' = cs(GetDone(call.key, call.seen, ""))
                /\ disk' = Sweep(disk, cs(IdleCall))
    /\ UNCHANGED pipeline

InitStorage ==
    /\ windowSize = WindowMinute
    /\ app = "running"
    /\ ctxDone = FALSE
    /\ stopCh = FALSE
    /\ files = [k \in {} |-> Nil]
    /\ lanes = [p \in Partitions |-> << >>]
    /\ req = [r \in Requests |-> Idle]
    /\ worker = [p \in Partitions |-> Selecting]
    /\ ulids = 0
    /\ faults = 0
    /\ published = 0
    /\ consumed = EmptyMap
    /\ ingested = EmptyMap
    /\ created = EmptyMap
    /\ sent = [p \in Partitions |-> 0]
    /\ taken = [p \in Partitions |-> 0]
    /\ pool = {}
    /\ delivered = {}
    /\ closed = FALSE
    /\ stops = [c \in StopCallers |-> "idle"]
    /\ disk \in {EmptyDisk, StoredDisk}
    /\ fileCalls = [c \in Callers |-> IdleCall]
    /\ input = Nil

NextStorage ==
    \/ \E c \in Callers, key \in Keys, content \in Contents, allowOverwrite \in BOOLEAN, ioFail \in BOOLEAN :
          StoragePut(c, key, content, allowOverwrite, ioFail)
    \/ \E c \in Callers, ioFail \in BOOLEAN : StorageCopy(c, ioFail)
    \/ \E c \in Callers, ioFail \in BOOLEAN : StoragePublish(c, ioFail)
    \/ \E c \in Callers, key \in Keys, ioFail \in BOOLEAN : StorageGet(c, key, ioFail)
    \/ \E c \in Callers, ioFail \in BOOLEAN : StorageRead(c, ioFail)

SpecStorage == InitStorage /\ [][NextStorage]_vars

\* ------------------------------------------------ one IngestBatch call

\* the calls IngestBatch can be given
Inputs ==
    [customerID : CustomerIDs, idempotencyKey : IdempotencyKeys, format : Formats,
     body : RawBodies \cup {Nil}]

\* IngestBatch on the request in detail, up to batchStore.Put's link:
\* validateLogBatch with its read of r, and the choice of the batch id
IngestValidate ==
    /\ req[1].pc = "idle"
    /\ LET valid == validateLogBatchReader(input.customerID, input.format, input.body)
           trimmed == TrimSpace(input.idempotencyKey)
           fresh == valid.err = "" /\ trimmed = ""
           batchID == IF trimmed = "" THEN NewULID(ulids + 1) ELSE trimmed
       IN  /\ req' = [req EXCEPT ![1] =
                        IF valid.err # "" THEN Done(valid.err)
                        ELSE [pc |-> "put", key |-> trimmed,
                              logBatch |-> LogBatch(batchID, input.customerID, valid.entries)]]
           /\ ulids' = IF fresh THEN ulids + 1 ELSE ulids
    /\ UNCHANGED <<windowSize, app, ctxDone, stopCh, files, lanes, worker, faults,
                   published, consumed, ingested, created, sent, taken, pool, delivered, side>>

InitIngest ==
    /\ windowSize = WindowMinute
    /\ app = "running"
    /\ ctxDone = FALSE
    /\ stopCh = FALSE
    /\ files = [k \in {} |-> Nil]
    /\ lanes = [p \in Partitions |-> << >>]
    /\ req = [r \in Requests |-> Idle]
    /\ worker = [p \in Partitions |-> Selecting]
    /\ ulids = 0
    /\ faults = 0
    /\ published = 0
    /\ consumed = EmptyMap
    /\ ingested = EmptyMap
    /\ created = EmptyMap
    /\ sent = [p \in Partitions |-> 0]
    /\ taken = [p \in Partitions |-> 0]
    /\ pool = {}
    /\ delivered = {}
    /\ closed = FALSE
    /\ stops = [c \in StopCallers |-> "idle"]
    /\ disk = EmptyDisk
    /\ fileCalls = [c \in Callers |-> IdleCall]
    /\ input \in Inputs

NextIngest ==
    \/ IngestValidate
    \/ \E ioFail \in BOOLEAN : IngestPut(1, ioFail)
    \/ \E windowKey \in WindowKeys, cancelled \in BOOLEAN : IngestPublish(1, windowKey, cancelled)

SpecIngest == InitIngest /\ [][NextIngest]_vars

\* ------------------------------------------------------------ observations

RECURSIVE SumFn(_)
\* the sum of a function's values
SumFn(f) ==
    IF DOMAIN f = {} THEN 0
    ELSE LET x == CHOOSE y \in DOMAIN f : TRUE IN
         f[x] + SumFn([y \in DOMAIN f \ {x} |-> f[y]])

\* nothing in flight: every call has returned, every lane is empty, no worker
\* holds an event
Quiescent ==
    /\ \A r \in Requests : req[r].pc \in {"idle", "done"}
    /\ \A p \in Partitions : lanes[p] = << >> /\ worker[p].pc \in {"select", "exited"}

RawKeys == {k \in DOMAIN files : k[1] = "raw-batches"}
AggKeys == {k \in DOMAIN files : k[1] = "aggregate-results"}

\* where a stored log entry is counted: its aggregate file, path key and
\* user-agent key
EntryAggKey(batch, i) == getKey(batch.CustomerID, batch.Entries[i].ReceivedAt, windowSize)
EntryPath(batch, i) == batch.Entries[i].Method \o " " \o batch.Entries[i].Path
EntryUA(batch, i) ==
    IF UserAgentName(batch.Entries[i].UserAgent) = ""
    THEN batch.Entries[i].UserAgent ELSE UserAgentName(batch.Entries[i].UserAgent)

\* the entries of the admitted (stored) batches that fall under an aggregate
\* file and a path key, or a user-agent key
AdmittedByPath(aggKey, k) ==
    SumFn([rk \in RawKeys |->
            Cardinality({i \in 1..Len(files[rk].Entries) :
                            EntryAggKey(files[rk], i) = aggKey /\ EntryPath(files[rk], i) = k})])
AdmittedByUA(aggKey, k) ==
    SumFn([rk \in RawKeys |->
            Cardinality({i \in 1..Len(files[rk].Entries) :
                            EntryAggKey(files[rk], i) = aggKey /\ EntryUA(files[rk], i) = k})])

StoredByPath(aggKey, k) ==
    IF aggKey \in DOMAIN files THEN MapGet(files[aggKey].requestsByPath, k) ELSE 0
StoredByUA(aggKey, k) ==
    IF aggKey \in DOMAIN files THEN MapGet(files[aggKey].requestsByUserAgent, k) ELSE 0

AllAggKeys ==
    AggKeys \cup UNION {{EntryAggKey(files[rk], i) : i \in 1..Len(files[rk].Entries)} : rk \in RawKeys}
AllPaths ==
    UNION {DOMAIN files[k].requestsByPath : k \in AggKeys}
      \cup UNION {{EntryPath(files[rk], i) : i \in 1..Len(files[rk].Entries)} : rk \in RawKeys}
AllUAs ==
    UNION {DOMAIN files[k].requestsByUserAgent : k \in AggKeys}
      \cup UNION {{EntryUA(files[rk], i) : i \in 1..Len(files[rk].Entries)} : rk \in RawKeys}

\* every stored aggregate holds, per path and per user agent, the number of
\* entries of the admitted batches that fall in its window
AggregatesMatchAdmitted ==
    \A aggKey \in AllAggKeys :
        /\ \A k \in AllPaths : StoredByPath(aggKey, k) = AdmittedByPath(aggKey, k)
        /\ \A k \in AllUAs : StoredByUA(aggKey, k) = AdmittedByUA(aggKey, k)

\* the aggregate file an event is rolled up into
EventKey(event) == getKey(event.CustomerID, event.WindowStart, event.WindowSize)

\* the worker is inside Aggregate
Aggregating(p) == worker[p].pc \in {"aggregate", "upsert"}

\* the events queued or being aggregated, each with the lane it went to
Held ==
    UNION {{[event |-> lanes[p][i].event, lane |-> p] : i \in 1..Len(lanes[p])} : p \in Partitions}
      \cup {[event |-> worker[p].event, lane |-> WorkerLane(p)] :
                p \in {q \in Partitions : Aggregating(q)}}

\* ------------------------------------------------------------------ claims

\* C1: with no failure injected, once every call has returned and every
\* published event has been consumed, each stored aggregate's per-path and
\* per-user-agent counts are the sums over the admitted batches: concurrent
\* ingestion of batches of one window loses no update.
C1_NoLostUpdate == (faults = 0 /\ Quiescent) => AggregatesMatchAdmitted

\* two batches with entries in one window of one customer were ingested and
\* both rolled up into its aggregate
C1_TwoBatchesSummed ==
    /\ faults = 0
    /\ Quiescent
    /\ \E aggKey \in AggKeys : \E rk1, rk2 \in RawKeys :
          /\ rk1 # rk2
          /\ \E i \in 1..Len(files[rk1].Entries) : EntryAggKey(files[rk1], i) = aggKey
          /\ \E i \in 1..Len(files[rk2].Entries) : EntryAggKey(files[rk2], i) = aggKey
          /\ StoredByPath(aggKey, "GET /") >= 2

\* C3: no two workers are inside Aggregate for the same aggregate key at the
\* same time.
C3_OneWorkerPerKey ==
    \A p, q \in Partitions :
        (p # q /\ Aggregating(p) /\ Aggregating(q))
            => EventKey(worker[p].event) # EventKey(worker[q].event)

\* two workers are between Get and Upsert at once, for one customer, while
\* an event is still queued behind one of them
C3_TwoWorkersAggregating ==
    \E p, q \in Partitions :
        /\ p # q
        /\ worker[p].pc = "upsert"
        /\ worker[q].pc = "upsert"
        /\ worker[p].event.CustomerID = worker[q].event.CustomerID
        /\ lanes[WorkerLane(p)] # << >>

\* C5: events of the same (customer, windowStart, windowSize) have the same
\* BucketID and sit in the lane that BucketID hashes to; any two events
\* with the same aggregate-results key are in the same lane.
C5_SameKeySameLane ==
    \A a, b \in Held :
        /\ a.lane = PublishLane(BucketID(a.event.WindowSize, a.event.WindowStart))
        /\ (/\ a.event.CustomerID = b.event.CustomerID
            /\ a.event.WindowStart = b.event.WindowStart
            /\ a.event.WindowSize = b.event.WindowSize)
              => /\ BucketID(a.event.WindowSize, a.event.WindowStart)
                      = BucketID(b.event.WindowSize, b.event.WindowStart)
                 /\ a.lane = b.lane
        /\ EventKey(a.event) = EventKey(b.event) => a.lane = b.lane

\* events of two batches for one aggregate key are held in one lane while an
\* event of another window is held in the other
C5_TwoEventsOneKey ==
    \E a, b, c \in Held :
        /\ a.event.BatchID # b.event.BatchID
        /\ EventKey(a.event) = EventKey(b.event)
        /\ a.lane = b.lane
        /\ c.lane # a.lane
\* a call that passed validation: its customer, trimmed idempotency key and
\* the raw-batches file its put targets
Validated(r) == req[r].pc \in {"put", "produce"} \/ (req[r].pc = "done" /\ req[r].result # "ING_1000")
CallCustomer(r) == IF req[r].pc = "done" THEN req[r].customerID ELSE req[r].logBatch.CustomerID
CallKey(r) == req[r].key
CallFile(r) ==
    FileKey("raw-batches", CallCustomer(r),
            IF req[r].pc = "done" THEN req[r].batchID ELSE req[r].logBatch.BatchID)

\* the outcome of a call's put
PutReturned(r) == Validated(r) /\ req[r].pc # "put"
PutSucceeded(r) == req[r].pc = "produce" \/ (req[r].pc = "done" /\ req[r].result \in {"", "ING_9001"})
PutIOError(r) == req[r].pc = "done" /\ req[r].result = "ING_9000"

\* the validated calls of one (customer, trimmed idempotency key)
CallsOf(customerID, key) ==
    {r \in Requests : Validated(r) /\ CallCustomer(r) = customerID /\ CallKey(r) = key}

\* once every put of the group has returned, none with an I/O error: exactly
\* one succeeded, the others returned ING_1001, and the group has exactly one
\* raw-batches file, holding the winner's batch
OneWinner(calls) ==
    (calls # {} /\ \A r \in calls : PutReturned(r) /\ ~PutIOError(r)) =>
        /\ Cardinality({r \in calls : PutSucceeded(r)}) = 1
        /\ \A r \in calls : ~PutSucceeded(r) => req[r].result = "ING_1001"
        /\ Cardinality({CallFile(r) : r \in calls} \cap DOMAIN files) = 1
        /\ \A r \in calls : PutSucceeded(r) =>
              CallFile(r) \in DOMAIN files /\ files[CallFile(r)] = req[r].logBatch

DeliveredByPath ==
    [k \in UNION {DOMAIN e.RequestsByPath : e \in delivered} |->
        SumFn([e \in delivered |-> MapGet(e.RequestsByPath, k)])]
DeliveredByUA ==
    [k \in UNION {DOMAIN e.RequestsByUserAgent : e \in delivered} |->
        SumFn([e \in delivered |-> MapGet(e.RequestsByUserAgent, k)])]

\* C4: starting from no stored aggregate and with no store failure, after
\* any set of events of one aggregate key has been aggregated, in whatever
\* order, the stored RequestsByPath and RequestsByUserAgent are the
\* element-wise sums of the events' maps.
C4_RollupIsSum ==
    \A e \in delivered :
        /\ EventKey(e) \in DOMAIN files
        /\ files[EventKey(e)].requestsByPath = DeliveredByPath
        /\ files[EventKey(e)].requestsByUserAgent = DeliveredByUA
        /\ AggKeys = {EventKey(e)}

\* four events, with overlapping and disjoint keys, have all been aggregated
C4_FourEventsAggregated ==
    /\ pool = {}
    /\ Cardinality(delivered) >= 4
    /\ \E e \in delivered : StoredByPath(EventKey(e), "GET /") >= 4

\* C6 as stated: every published event ends up persisted by Upsert or counted
\* in the consumed counter with an error code, so once every worker has
\* exited the consumed counter accounts for every published event.
C6_NoSilentDrop ==
    (\A p \in Partitions : worker[p].pc = "exited") => SumFn(consumed) = published

\* the windows of a stored batch: one event is published for each
WindowsOf(batch) == {EntryAggKey(batch, i) : i \in 1..Len(batch.Entries)}

\* the events already published, and those the calls in Produce have yet to publish
Pending == SumFn([r \in {q \in Requests : req[q].pc = "produce"} |-> Cardinality(req[r].todo)])
AdmittedWindows == SumFn([rk \in RawKeys |-> Cardinality(WindowsOf(files[rk]))])

\* a call returned ING_1001: it resubmitted a batch that was already admitted
Resubmitted == \E r \in Requests : req[r].pc = "done" /\ req[r].result = "ING_1001"

C8_PanicRecovered ==
    [][\A p \in Partitions :
          (worker[p].pc = "aggregate" /\ worker'[p].pc \notin {"aggregate", "upsert"}) =>
              /\ worker'[p].pc = "select"
              /\ MapGet(consumed', "SYS_9000") = MapGet(consumed, "SYS_9000") + 1
              /\ SumFn(consumed') = SumFn(consumed) + 1
              /\ lanes' = lanes
              /\ files' = files]_vars

\* the one worker that has taken events panicked on its first (Get failed,
\* SYS_9000 counted once) and is now aggregating its second
C8_NextEventAfterPanic ==
    /\ MapGet(consumed, "SYS_9000") = 1
    /\ SumFn(consumed) = 1
    /\ \E p \in Partitions :
          /\ taken[p] = 2
          /\ worker[p].pc = "upsert"
          /\ \A q \in Partitions \ {p} : taken[q] = 0

\* C9: the events published to a lane are taken by that lane's worker, one
\* at a time and in the order their Publish calls completed: the event a
\* worker is aggregating is the next in publish order after those it has
\* finished, and the queued ones follow in order, so for two events of one
\* partition key the first Aggregate has returned before the second begins.
C9_LaneOrder ==
    \A p \in Partitions :
        /\ Aggregating(p) =>
              /\ worker[p].seq = taken[p]
              /\ PublishLane(partitionKey(worker[p].event)) = WorkerLane(p)
        /\ \A i \in 1..Len(lanes[WorkerLane(p)]) :
              /\ lanes[WorkerLane(p)][i].seq = taken[p] + i
              /\ PublishLane(partitionKey(lanes[WorkerLane(p)][i].event)) = WorkerLane(p)
        /\ sent[WorkerLane(p)] = taken[p] + Len(lanes[WorkerLane(p)])

\* a worker is aggregating the first event published with some partition key
\* while the second event published with that key waits in its lane
C9_SecondWaitsForFirst ==
    \E p \in Partitions :
        /\ worker[p].pc = "upsert"
        /\ worker[p].seq = 1
        /\ lanes[WorkerLane(p)] # << >>
        /\ Head(lanes[WorkerLane(p)]).seq = 2
        /\ partitionKey(Head(lanes[WorkerLane(p)]).event) = partitionKey(worker[p].event)

AllExited == \A p \in Partitions : worker[p].pc = "exited"

\* C11 as stated: Close drops nothing that is queued, a worker still takes
\* the queued elements after it, and a worker whose lane is closed and
\* drained exits its loop: from its select it takes no further event.
C11_ExitsWhenClosedAndDrained ==
    [][/\ (closed' /\ ~closed) => lanes' = lanes
       /\ \A p \in Partitions :
             (worker[p].pc = "select" /\ worker'[p].pc = "aggregate") =>
                 /\ lanes[WorkerLane(p)] # << >>
                 /\ worker'[p].event = Head(lanes[WorkerLane(p)]).event]_vars

\* C12: Stop can be called any number of times and never panics; a call
\* returns only when every worker has exited; once the stop signal has fired
\* or the start context is cancelled every worker eventually exits.
C12_StopIdempotentAndBlocking ==
    /\ [](\A c \in StopCallers : stops[c] # "panicked")
    /\ [](\A c \in StopCallers : stops[c] = "returned" => AllExited)
    /\ (stopCh \/ ctxDone) ~> AllExited

\* Stop was called twice and both calls have returned, every worker having
\* exited after aggregating at least one event
C12_BothStopsReturned ==
    /\ \A c \in StopCallers : stops[c] = "returned"
    /\ AllExited
    /\ SumFn(taken) >= 1

\* C13: Stop aborts nothing in flight: when a Stop call has returned no
\* worker holds an event, and every event a worker dequeued has had its
\* Aggregate call finished and its consumed-counter increment made.
C13_StopWaitsForInFlight ==
    (\E c \in StopCallers : stops[c] = "returned") =>
        /\ \A p \in Partitions : ~Aggregating(p)
        /\ SumFn(consumed) = SumFn(taken)

\* the stop signal has fired while a worker is inside Aggregate with an
\* event it dequeued, and the Stop call is waiting
C13_StopWaitsWhileAggregating ==
    /\ stopCh
    /\ \E c \in StopCallers : stops[c] = "waiting"
    /\ \E p \in Partitions : worker[p].pc = "upsert" /\ worker[p].event.BatchID # ""

\* a key the storage must refuse: empty, absolute, '.', '..', one whose
\* cleaned form begins with '..', or one that resolves outside the root
InvalidKey(key) ==
    LET resolved == Join(Root, key).segs IN
    \/ key = Path(FALSE, << >>)
    \/ key.abs
    \/ key.segs \in {<<".">>, <<"..">>}
    \/ HasPrefixDotDot(Clean(key))
    \/ Len(resolved) < Len(Root.segs)
    \/ SubSeq(resolved, 1, Len(Root.segs)) # Root.segs

\* the content a Get of each stored key would read: temp files aside
VisibleFiles(d) ==
    LET final == {n \in DOMAIN d.names : n[Len(n)] \notin {".tmp-1", ".tmp-2", ".tmp-3", ".tmp-4"}}
    IN  [n \in final |-> d.data[d.names[n]]]

\* C14: a Put or Get of an invalid key returns ErrInvalidKey in the step that
\* starts it, and that step leaves the file system as it was: no directory,
\* no temp file, no final file, no os.Open.
C14_InvalidKeyTouchesNothing ==
    [][\A c \in Callers :
          (fileCalls[c].pc = "idle" /\ fileCalls'[c].pc # "idle" /\ InvalidKey(fileCalls'[c].key)) =>
              /\ fileCalls'[c].pc = "done"
              /\ fileCalls'[c].err = "ErrInvalidKey"
              /\ disk' = disk]_vars

\* a Put of "../a" and a Get of "/a" have both returned ErrInvalidKey and the
\* root directory has not even been made
C14_InvalidPutAndGetReturned ==
    /\ fileCalls[1] = PutDone(Path(FALSE, <<"..", "a">>), "ErrInvalidKey")
    /\ fileCalls[2] = GetDone(Path(TRUE, <<"a">>), << >>, "ErrInvalidKey")
    /\ disk = EmptyDisk

\* C15: a Put with AllowOverwrite replaces the content in one step: when it
\* returns without error a Get of the key reads the new content; when it
\* returns an error the stored contents are what they were; a stored key
\* never holds, and a reader never reads to the end, anything but a complete
\* content.
C15_OverwriteIsAtomic ==
    /\ [](\A n \in DOMAIN VisibleFiles(disk) : VisibleFiles(disk)[n] \in Contents)
    /\ [](\A c \in Callers :
             (fileCalls[c].pc = "done" /\ fileCalls[c].op = "get" /\ fileCalls[c].err = "") =>
                 fileCalls[c].seen \in Contents)
    /\ [][\A c \in Callers :
             (/\ fileCalls[c].pc \in {"copy", "publish"}
              /\ fileCalls[c].allowOverwrite
              /\ fileCalls'[c].pc = "done") =>
                 IF fileCalls'[c].err = ""
                 THEN /\ FinalPath(fileCalls[c].key) \in DOMAIN VisibleFiles(disk')
                      /\ VisibleFiles(disk')[FinalPath(fileCalls[c].key)] = fileCalls[c].content
                 ELSE VisibleFiles(disk') = VisibleFiles(disk)]_vars

\* key "a" held "pp"; an overwriting Put has replaced it with "qq" while a
\* Get that opened the file before the rename has read the whole of "pp"
C15_ReaderSawPreviousContent ==
    /\ fileCalls[1] = PutDone(Path(FALSE, <<"a">>), "")
    /\ fileCalls[2] = GetDone(Path(FALSE, <<"a">>), <<"p", "p">>, "")
    /\ VisibleFiles(disk)[<<"data", "a">>] = <<"q", "q">>

\* the calls that returned ING_9001: batch stored, Produce failed
ProduceFailed(r) == req[r].pc = "done" /\ req[r].result = "ING_9001"

\* for the failed calls with a key in K: the batch they stored is still
\* stored, and every other call of the same customer and key whose put has
\* returned (not on an I/O error) has returned ING_1001
StoredAndConflicting(K) ==
    \A r1 \in Requests :
        (ProduceFailed(r1) /\ CallKey(r1) \in K) =>
            /\ CallFile(r1) \in DOMAIN files
            /\ files[CallFile(r1)] = req[r1].logBatch
            /\ \A r2 \in Requests \ {r1} :
                  (/\ PutReturned(r2)
                   /\ ~PutIOError(r2)
                   /\ CallCustomer(r2) = CallCustomer(r1)
                   /\ CallKey(r2) = CallKey(r1)) =>
                      req[r2].pc = "done" /\ req[r2].result = "ING_1001"

C17_AggregateReturnsTypedError ==
    [][\A p \in Partitions :
          (Aggregating(p) /\ worker'[p].pc = "select") =>
              \E code \in {"", "AGG_9000", "AGG_9001"} :
                  /\ consumed' = MapAdd(consumed, code, 1)
                  /\ code = "" =>
                        /\ worker[p].pc = "upsert"
                        /\ files' = AggregateFrom(files, created, worker[p].aggregateResult,
                                                  worker[p].event, FALSE).fs
                        /\ getKey(worker[p].event.CustomerID, worker[p].event.WindowStart,
                                  worker[p].event.WindowSize) \in DOMAIN files']_vars

\* the receivedAt texts one of parseTime's layouts accepts
ParsableTimes ==
    {"2025-12-28T18:03:15Z", "2025-12-28T18:03:45.000Z", "2025-12-28T19:03:10+01:00"}

\* an item IngestBatch must refuse: a member missing or not a string, a
\* receivedAt that does not parse, a trimmed path or user agent over its limit
DefectiveItem(obj) ==
    \/ \E f \in Fields : f \notin DOMAIN obj
    \/ \E f \in Fields \cap DOMAIN obj : ~IsString(obj[f])
    \/ /\ \A f \in Fields : f \in DOMAIN obj /\ IsString(obj[f])
       /\ \/ obj.receivedAt.string \notin ParsableTimes
          \/ StrLen(TrimSpace(obj.path.string)) > maxPathLen
          \/ StrLen(TrimSpace(obj.userAgent.string)) > maxUserAgentLen

\* a body IngestBatch must refuse: oversize, not decodable as an array, empty,
\* or with a defective item
DefectiveBody(body) ==
    \/ BodySize(body) > maxBatchBytes
    \/ body.doc.kind \in {"malformed", "object"}
    \/ body.doc.items = << >>
    \/ \E i \in 1..Len(body.doc.items) : DefectiveItem(body.doc.items[i])

\* the reader hands the whole body to the one Read
WholeRead(body) == body.read = BodySize(body)

\* a call IngestBatch must refuse
Defective(args) ==
    \/ args.customerID = ""
    \/ ~ContainsJSON(args.format)
    \/ args.body # Nil /\ WholeRead(args.body) /\ DefectiveBody(args.body)

\* nothing stored, nothing published
Untouched ==
    /\ DOMAIN files = {}
    /\ published = 0
    /\ \A p \in Partitions : lanes[p] = << >>

\* C18: a call with an empty customerId, a format without 'json', or a body
\* (as its Read delivers it) that is oversize, undecodable, empty or holds a
\* defective item returns a nil result and ING_1000 from validation; and
\* whenever the call returns ING_1000 the result is nil and nothing was put,
\* summarized or published.
C18_RejectedInputTouchesNothing ==
    /\ (req[1].pc # "idle" /\ Defective(input)) => req[1] = Done("ING_1000")
    /\ (req[1].pc = "done" /\ req[1].result = "ING_1000") => (req[1].ret = Nil /\ Untouched)

\* a call whose second item carries a user agent over the limit, read whole,
\* has been rejected
C18_OverlongUserAgentRejected ==
    /\ req[1] = Done("ING_1000")
    /\ input.customerID # "" /\ ContainsJSON(input.format) /\ input.body # Nil
    /\ WholeRead(input.body)
    /\ BodySize(input.body) = maxBatchBytes
    /\ Len(input.body.doc.items) = 2
    /\ input.body.doc.items[2] = [GoodItem EXCEPT !.userAgent = Str(UALong)]

\* a well-formed body: a JSON array of one or more items without defect
WellFormed(body) ==
    /\ body.doc.kind = "array"
    /\ body.doc.items # << >>
    /\ \A i \in 1..Len(body.doc.items) : ~DefectiveItem(body.doc.items[i])

\* C19 as stated: with a customerId and a json format, a well-formed body of
\* exactly maxBatchBytes bytes is not rejected and one of maxBatchBytes+1
\* bytes is rejected with ING_1000, however the reader splits its bytes.
C19_SizeCapWhateverTheReads ==
    (/\ req[1].pc # "idle"
     /\ input.customerID # "" /\ ContainsJSON(input.format) /\ input.body # Nil
     /\ WellFormed(input.body)) =>
        /\ BodySize(input.body) = maxBatchBytes => req[1] # Done("ING_1000")
        /\ BodySize(input.body) = maxBatchBytes + 1 => req[1] = Done("ING_1000")

\* C20 as stated: a call that succeeds returns a result whose batch id is
\* the admitted batch's: the trimmed idempotency key, or the generated id
\* when that is empty.
C20_ResultCarriesBatchID ==
    \A r \in Requests :
        (req[r].pc = "done" /\ req[r].result = "") =>
            /\ req[r].ret # Nil
            /\ req[r].ret.BatchID = req[r].batchID
            /\ req[r].key # "" => req[r].batchID = req[r].key

\* the error codes an IngestBatch call can end with
IngestCodes == {"", "ING_1000", "ING_1001", "ING_9000", "ING_9001"}

\* C21 as stated: every call that has returned has incremented
\* ingestion_batch_ingested_total once under its outcome's code: the counter
\* of each code equals the number of calls returned with it.
C21_CountedOncePerOutcome ==
    \A code \in IngestCodes :
        MapGet(ingested, code) =
            Cardinality({r \in Requests : req[r].pc = "done" /\ req[r].result = code})

\* C22: in every step the created counter grows by exactly the aggregates
\* the step stores for the first time, each under its window's bucket id; a
\* stored aggregate is never removed, so each (customerId, windowStart,
\* windowSize) is counted at most once and a rollup into a stored window
\* counts nothing.
C22_CreatedOncePerWindow ==
    [][LET made == {k \in DOMAIN files' : k[1] = "aggregate-results"} \ AggKeys IN
       /\ AggKeys \subseteq DOMAIN files'
       /\ SumFn(created') = SumFn(created) + Cardinality(made)
       /\ \A k \in made :
             LET b == BucketID(files'[k].windowSize, ParseRFC3339(files'[k].windowStart))
             IN  MapGet(created', b) = MapGet(created, b) + 1]_vars

\* two events were rolled up into the one stored window, and the counter
\* stands at one
C22_SecondRollupNotCounted ==
    /\ Cardinality(AggKeys) = 1
    /\ MapGet(consumed, "") = 2
    /\ SumFn(created) = 1

WindowInstants == {64995, 65025, 65045, 68390}
WindowOffsets == {0, 3600, 0 - 3600, 19800}

\* two entries of one batch, told apart by their paths
WindowEntries ==
    {<<LogEntry(s1, o1, "GET", "/1", UAChrome), LogEntry(s2, o2, "GET", "/2", UAChrome)>> :
        <<s1, o1, s2, o2>> \in
            WindowInstants \X WindowOffsets \X WindowInstants \X WindowOffsets}

\* batchSummarizer.Summarize on the two entries
WindowSummarize ==
    /\ input.step = "entries"
    /\ input' = [input EXCEPT
                    !.step = "summary",
                    !.summary = Summarize(LogBatch("batch-0001", "cust-1", input.entries),
                                          windowSize)]
    /\ UNCHANGED <<windowSize, app, ctxDone, stopCh, files, lanes, req, worker, ulids, faults,
                   published, consumed, ingested, created, sent, taken, pool, delivered,
                   closed, stops, disk, fileCalls>>

\* Produce's event of each summary window, with the keys taken from it: the
\* aggregate store's key and the bucket id
WindowProduce ==
    /\ input.step = "summary"
    /\ input' = [input EXCEPT
                    !.step = "keys",
                    !.keys = {LET event == PartialInsightEvent(input.summary, windowKey) IN
                              [windowKey |-> windowKey,
                               windowStartKey |-> getKey(event.CustomerID, event.WindowStart,
                                                         event.WindowSize),
                               bucketID |-> BucketID(event.WindowSize, event.WindowStart),
                               paths |-> DOMAIN event.RequestsByPath] :
                              windowKey \in DOMAIN input.summary.ByWindowStart}]
    /\ UNCHANGED <<windowSize, app, ctxDone, stopCh, files, lanes, req, worker, ulids, faults,
                   published, consumed, ingested, created, sent, taken, pool, delivered,
                   closed, stops, disk, fileCalls>>

InitWindow ==
    /\ windowSize \in {WindowMinute, WindowHour}
    /\ app = "running"
    /\ ctxDone = FALSE
    /\ stopCh = FALSE
    /\ files = [k \in {} |-> Nil]
    /\ lanes = [p \in Partitions |-> << >>]
    /\ req = [r \in Requests |-> Idle]
    /\ worker = [p \in Partitions |-> Selecting]
    /\ ulids = 0
    /\ faults = 0
    /\ published = 0
    /\ consumed = EmptyMap
    /\ ingested = EmptyMap
    /\ created = EmptyMap
    /\ sent = [p \in Partitions |-> 0]
    /\ taken = [p \in Partitions |-> 0]
    /\ pool = {}
    /\ delivered = {}
    /\ closed = FALSE
    /\ stops = [c \in StopCallers |-> "idle"]
    /\ disk = EmptyDisk
    /\ fileCalls = [c \in Callers |-> IdleCall]
    /\ input \in [step : {"entries"}, entries : WindowEntries, summary : {Nil}, keys : {{}}]

NextWindow ==
    \/ WindowSummarize
    \/ WindowProduce

SpecWindow == InitWindow /\ [][NextWindow]_vars

\* the keys under which an entry of the batch was counted
KeysOf(i) ==
    {k \in input.keys : (input.entries[i].Method \o " " \o input.entries[i].Path) \in k.paths}

\* the UTC truncation of an instant to the window duration
UTCWindowStart(t) == Time(t.sec - (t.sec % Duration(windowSize)), 0)

\* C24: two entries received at the same instant are counted under the same
\* summary window key, the same window start key and the same bucket id,
\* whatever zone offset each carries; and the window key of every entry is
\* the UTC truncation of its instant to the window duration.
C24_SameInstantSameWindow ==
    input.step = "keys" =>
        /\ TimeEqual(input.entries[1].ReceivedAt, input.entries[2].ReceivedAt) =>
              /\ KeysOf(1) = KeysOf(2)
              /\ Cardinality(input.keys) = 1
        /\ \A i \in 1..2 : \A k \in KeysOf(i) :
              /\ Cardinality(KeysOf(i)) = 1
              /\ k.windowKey = FormatRFC3339(UTCWindowStart(input.entries[i].ReceivedAt))
              /\ k.windowStartKey =
                    getKey("cust-1", UTCWindowStart(input.entries[i].ReceivedAt), windowSize)
              /\ k.bucketID = BucketID(windowSize, UTCWindowStart(input.entries[i].ReceivedAt))

\* one instant written as 18:03:15Z and as 23:33:15+05:30, counted in one
\* hour window
C24_SameInstantTwoOffsets ==
    /\ windowSize = WindowHour
    /\ input.step = "keys"
    /\ input.entries[1].ReceivedAt = Time(64995, 0)
    /\ input.entries[2].ReceivedAt = Time(64995, 19800)
    /\ Cardinality(input.keys) = 1

\* ------------------------------------------------------------ POST /logs

\* svcerrors.ServiceError, less its cause
ServiceError(category, code, message, status) ==
    [Category |-> category, Code |-> code, Message |-> message, HttpStatusCode |-> status]

NewInvalidArgumentError(code, message) == ServiceError("invalid_argument", code, message, 400)
NewResourceConflictError(code, message) == ServiceError("resource_conflict", code, message, 409)
NewInternalError(code) == ServiceError("internal", code, "internal server error", 500)
NewInternalErrorPanic == NewInternalError("SYS_9000")
NewInternalErrorUndefined == NewInternalError("SYS_9001")

\* an error value: a *ServiceError, an error of another type, or an error
\* wrapping another one (fmt.Errorf with %w)
SvcErr(svc) == [kind |-> "svc", svc |-> svc]
PlainErr(text) == [kind |-> "plain", text |-> text]
WrapErr(cause) == [kind |-> "wrap", cause |-> cause]

\* the errors of the ingestion service
errValidationFailed(msg) == NewInvalidArgumentError("ING_1000", msg)
errLogBatchAlreadyProcessed == NewResourceConflictError("ING_1001", "log batch already processed")
errInternalLogBatchStoreFailed == NewInternalError("ING_9000")
errInternalPartialInsightPublisherFailed == NewInternalError("ING_9001")

ServiceErrors ==
    {errValidationFailed("customer_id is required"),
     errValidationFailed("payload exceeds maximum size"),
     errValidationFailed("invalid JSON payload"),
     errLogBatchAlreadyProcessed,
     errInternalLogBatchStoreFailed,
     errInternalPartialInsightPublisherFailed}

\* what Handle can do: return nil, return an error, or panic
HandleOutcomes ==
    {[panic |-> FALSE, err |-> PlainErr("")]}
        \cup {[panic |-> FALSE, err |-> SvcErr(e)] : e \in ServiceErrors}
        \cup {[panic |-> FALSE, err |-> WrapErr(SvcErr(e))] : e \in ServiceErrors}
        \cup {[panic |-> FALSE, err |-> e] :
                e \in {PlainErr("EOF"), WrapErr(PlainErr("EOF"))}}
        \cup {[panic |-> TRUE, err |-> PlainErr("nil pointer dereference")]}

\* svcerrors.AsServiceError: the first *ServiceError of the chain
RECURSIVE AsServiceError(_)
AsServiceError(err) ==
    CASE err.kind = "svc" -> [svcErr |-> err.svc, ok |-> TRUE]
      [] err.kind = "wrap" -> AsServiceError(err.cause)
      [] OTHER -> [svcErr |-> NewInternalErrorUndefined, ok |-> FALSE]

\* the x-request-id headers a request arrives with
RequestIDHeaders == {"", "req-1", "req-2"}

\* a response: nothing written yet has status 0
NoBody == [f \in {} |-> ""]
Response(status, contentType, body) ==
    [status |-> status, contentType |-> contentType, body |-> body]

\* writeErrorResponse
writeErrorResponse(requestID, svcErr) ==
    Response(svcErr.HttpStatusCode, "application/json",
             [requestId |-> requestID, errorCategory |-> svcErr.Category,
              errorCode |-> svcErr.Code, errorDescription |-> svcErr.Message])

\* a request as the router receives it
Received(header) ==
    [step |-> "received", header |-> header,
     outcome |-> [panic |-> FALSE, err |-> PlainErr("")], resp |-> Response(0, "", NoBody)]

\* mwRequestID: a request without a request id gets a fresh one
mwRequestID(r) ==
    /\ input[r].step = "received"
    /\ LET fresh == TrimSpace(input[r].header) = "" IN
       /\ input' = [input EXCEPT ![r].step = "routed",
                                 ![r].header = IF fresh THEN NewULID(ulids + 1) ELSE @]
       /\ ulids' = IF fresh THEN ulids + 1 ELSE ulids
    /\ UNCHANGED <<windowSize, app, ctxDone, stopCh, files, lanes, req, worker, faults,
                   published, consumed, ingested, created, sent, taken, pool, delivered,
                   closed, stops, disk, fileCalls>>

\* errorHandlingAdapter around the handler of POST /logs: 202 when Handle
\* returns nil, the error response when it returns an error, nothing when
\* it panics
errorHandlingAdapter(r, outcome) ==
    /\ input[r].step = "routed"
    /\ LET as == AsServiceError(outcome.err)
           svcErr == IF as.ok THEN as.svcErr ELSE NewInternalErrorUndefined
       IN  input' = [input EXCEPT
                        ![r].outcome = outcome,
                        ![r].step = IF outcome.panic THEN "panicking" ELSE "responded",
                        ![r].resp =
                            IF outcome.panic THEN @
                            ELSE IF outcome.err = PlainErr("") THEN Response(202, "", NoBody)
                            ELSE writeErrorResponse(TrimSpace(input[r].header), svcErr)]
    /\ UNCHANGED <<windowSize, app, ctxDone, stopCh, files, lanes, req, worker, ulids, faults,
                   published, consumed, ingested, created, sent, taken, pool, delivered,
                   closed, stops, disk, fileCalls>>

\* mwRecoverer: the deferred recover of a handler panic
mwRecoverer(r) ==
    /\ input[r].step = "panicking"
    /\ input' = [input EXCEPT
                    ![r].step = "responded",
                    ![r].resp = writeErrorResponse(TrimSpace(input[r].header),
                                                   NewInternalErrorPanic)]
    /\ UNCHANGED <<windowSize, app, ctxDone, stopCh, files, lanes, req, worker, ulids, faults,
                   published, consumed, ingested, created, sent, taken, pool, delivered,
                   closed, stops, disk, fileCalls>>

InitHTTP ==
    /\ windowSize = WindowMinute
    /\ app = "running"
    /\ ctxDone = FALSE
    /\ stopCh = FALSE
    /\ files = [k \in {} |-> Nil]
    /\ lanes = [p \in Partitions |-> << >>]
    /\ req = [r \in Requests |-> Idle]
    /\ worker = [p \in Partitions |-> Selecting]
    /\ ulids = 0
    /\ faults = 0
    /\ published = 0
    /\ consumed = EmptyMap
    /\ ingested = EmptyMap
    /\ created = EmptyMap
    /\ sent = [p \in Partitions |-> 0]
    /\ taken = [p \in Partitions |-> 0]
    /\ pool = {}
    /\ delivered = {}
    /\ closed = FALSE
    /\ stops = [c \in StopCallers |-> "idle"]
    /\ disk = EmptyDisk
    /\ fileCalls = [c \in Callers |-> IdleCall]
    /\ input \in [Requests -> {Received(h) : h \in RequestIDHeaders}]

NextHTTP ==
    \/ \E r \in Requests : mwRequestID(r)
    \/ \E r \in Requests, outcome \in HandleOutcomes : errorHandlingAdapter(r, outcome)
    \/ \E r \in Requests : mwRecoverer(r)

SpecHTTP == InitHTTP /\ [][NextHTTP]_vars

\* the status of each error category
CategoryStatus ==
    [invalid_argument |-> 400, resource_conflict |-> 409, internal |-> 500]

RawBatchStored(event) == FileKey("raw-batches", event.CustomerID, event.BatchID) \in DOMAIN files

\* the events of the queue and of the workers
EventsInFlight ==
    {lanes[p][i].event : <<p, i>> \in {x \in Partitions \X (1..buffer) : x[2] <= Len(lanes[x[1]])}}
        \cup {worker[p].event : p \in {q \in Partitions : worker[q].pc \notin {"select", "exited"}}}

\* the windows of the batch of a call
WindowCount(logBatch) == Cardinality(DOMAIN Summarize(logBatch, windowSize).ByWindowStart)

\* the fewest and the most events the calls can have enqueued so far: all
\* the windows of a call that succeeded, the windows no longer to do of a
\* call inside Produce, and at most all but one of a call whose Produce failed
EnqueuedAtLeast(r) ==
    CASE req[r].pc = "produce" -> WindowCount(req[r].logBatch) - Cardinality(req[r].todo)
      [] req[r].pc = "done" ->
            IF req[r].result = "" THEN WindowCount(req[r].logBatch) ELSE 0
      [] OTHER -> 0

EnqueuedAtMost(r) ==
    CASE req[r].pc = "produce" -> WindowCount(req[r].logBatch) - Cardinality(req[r].todo)
      [] req[r].pc = "done" ->
            IF req[r].result = "" THEN WindowCount(req[r].logBatch)
            ELSE IF req[r].result = "ING_9001" THEN WindowCount(req[r].logBatch) - 1
            ELSE 0
      [] OTHER -> 0

\* C26: every event that was published and is still queued or in a
\* worker's hands carries the (customerId, batchId) of a stored raw batch
\* (stored batches are never removed), and the events enqueued so far are
\* all those of the calls that returned success, those already sent by the
\* calls inside Produce, and nothing of a call that has not stored its batch.
C26_PublishedAfterStored ==
    /\ \A event \in EventsInFlight : RawBatchStored(event)
    /\ SumFn([r \in Requests |-> EnqueuedAtLeast(r)]) <= published
    /\ published <= SumFn([r \in Requests |-> EnqueuedAtMost(r)])

\* a call over two windows has returned success with both events enqueued,
\* one still queued and one in a worker's hands
C26_BothWindowsEnqueued ==
    /\ req[1].pc = "done"
    /\ req[1].result = ""
    /\ WindowCount(req[1].logBatch) = 2
    /\ published = 2
    /\ Cardinality(EventsInFlight) = 2

\* the Aggregate calls the workers have made: one for every receive, less
\* the receives whose Aggregate has yet to begin
AggregateCalls == SumFn(taken) - Cardinality({p \in Partitions : worker[p].pc = "aggregate"})

\* C27 as stated: an event in a worker's hands is a message that was
\* published to that worker's lane, no message is taken twice, and the
\* Aggregate calls never outnumber the completed Publish calls, whether or
\* not the queue has been closed.
C27_AggregatesOnlyPublished ==
    /\ \A p \in Partitions :
          worker[p].pc \in {"aggregate", "upsert"} =>
              /\ worker[p].seq \in 1..sent[WorkerLane(p)]
              /\ worker[p].seq = taken[p]
    /\ AggregateCalls <= published

\* C28 as stated: once the stop channel is closed or the start context is
\* cancelled, a worker waiting in its select takes no further event of its
\* lane: its next step is its return.
C28_NoReceiveAfterStop ==
    [][\A p \in Partitions :
          ((ctxDone \/ stopCh) /\ worker[p].pc = "select" /\ lanes[WorkerLane(p)] # << >>) =>
              worker'[p].pc # "aggregate"]_vars

\* ------------------------------------------- the App with a lane that fills

\* a batch over three minutes whose buckets share a lane (18:03, 18:05 and
\* 18:07), and a batch of one entry in the first of them
LifecycleBodies ==
    { <<LogEntry(64995, 0, "GET", "/", UAChrome), LogEntry(65115, 0, "GET", "/", UAChrome),
        LogEntry(65235, 0, "GET", "/", UAChrome)>>,
      <<LogEntry(65025, 0, "GET", "/about", UAFirefox)>> }

LifecycleWindowKeys ==
    {FormatRFC3339(Truncate(UTC(body[i].ReceivedAt), Duration(WindowMinute))) :
        <<body, i>> \in {x \in LifecycleBodies \X (1..3) : x[2] <= Len(x[1])}}

InitLifecycle ==
    /\ windowSize = WindowMinute
    /\ app = "running"
    /\ ctxDone = FALSE
    /\ stopCh = FALSE
    /\ files = [k \in {} |-> Nil]
    /\ lanes = [p \in Partitions |-> << >>]
    /\ req = [r \in Requests |-> Idle]
    /\ worker = [p \in Partitions |-> Selecting]
    /\ ulids = 0
    /\ faults = 0
    /\ published = 0
    /\ consumed = EmptyMap
    /\ ingested = EmptyMap
    /\ created = EmptyMap
    /\ sent = [p \in Partitions |-> 0]
    /\ taken = [p \in Partitions |-> 0]
    /\ pool = {}
    /\ delivered = {}
    /\ SideIdle

\* the App with these requests, free of storage failures and of cancelled
\* request contexts
NextLifecycle ==
    \/ \E r \in Requests, b \in LifecycleBodies :
          IngestBatch(r, "cus-axon", "", "application/json", b)
    \/ \E r \in Requests : IngestPut(r, FALSE)
    \/ \E r \in Requests, windowKey \in LifecycleWindowKeys : IngestPublish(r, windowKey, FALSE)
    \/ \E p \in Partitions : WorkerReceive(p)
    \/ \E p \in Partitions : WorkerExit(p)
    \/ \E p \in Partitions : WorkerGet(p, FALSE)
    \/ \E p \in Partitions : WorkerUpsert(p, FALSE)
    \/ ShutdownServer
    \/ ShutdownCancel
    \/ ConsumerStop
    \/ ConsumerStopReturn

SpecLifecycle == InitLifecycle /\ [][NextLifecycle]_vars

\* a step of a request handler past validation: the batch store's put, or
\* a Publish that completes
HandlerStep ==
    \E r \in Requests :
        \/ IngestPut(r, FALSE)
        \/ \E windowKey \in LifecycleWindowKeys : IngestPublish(r, windowKey, FALSE)

\* a worker takes an event of its lane and begins Aggregate on it
WorkerTake == \E p \in Partitions : WorkerReceive(p) \/ WorkerGet(p, FALSE)

\* the scheduler does not stop the handlers while one of them can take a
\* step, nor the workers while one of them has an event to take or in hand;
\* an Aggregate call past its Get returns (WorkerUpsert is enabled exactly
\* while the worker is there, so this is its weak fairness)
SpecLifecycleFair ==
    /\ SpecLifecycle
    /\ WF_vars(HandlerStep)
    /\ WF_vars(WorkerTake)
    /\ \A p \in Partitions : []<>(worker[p].pc # "upsert")

\* the lane the next Publish of a call inside Produce is for is full
BlockedOnFullLane(r) ==
    /\ req[r].pc = "produce"
    /\ \A k \in req[r].todo :
          ~SendReady(lanes[PublishLane(partitionKey(PartialInsightEvent(req[r].batchSummary, k)))])

\* C29: under the App lifecycle with fair scheduling every call inside
\* Produce returns, a call blocked in Publish on a full lane included.
C29_ProduceReturns ==
    \A r \in Requests :
        (req[r].pc = "produce") ~> (req[r].pc = "done")

\* a handler is blocked in Publish on a full lane while shutdown has begun
C29_BlockedWhileDraining ==
    /\ app = "draining"
    /\ BlockedOnFullLane(1)
    /\ \A p \in Partitions : worker[p].pc # "exited"

\* C30: no lane holds more than its buffer; a step changes a lane only by
\* appending one message after the queued ones or by taking the first, and
\* while a lane is full no Publish to it completes.
C30_LaneWithinCapacity ==
    [][\A p \in Partitions :
          /\ Len(lanes[p]) <= buffer
          /\ Len(lanes'[p]) <= buffer
          /\ \/ lanes'[p] = lanes[p]
             \/ lanes[p] # << >> /\ lanes'[p] = Tail(lanes[p])
             \/ /\ Len(lanes'[p]) = Len(lanes[p]) + 1
                /\ SubSeq(lanes'[p], 1, Len(lanes[p])) = lanes[p]
                /\ sent'[p] = sent[p] + 1
          /\ Len(lanes[p]) = buffer => sent'[p] = sent[p]]_vars

\* a full lane, its worker busy, and a handler waiting to publish to it
C30_PublisherWaitsOnFullLane ==
    /\ \E p \in Partitions : Len(lanes[p]) = buffer /\ worker[p].pc = "upsert"
    /\ \E r \in Requests : BlockedOnFullLane(r)

\* the labels the consumed counter can carry
ConsumedCodes == {"", "AGG_9000", "AGG_9001", "SYS_9000"}

\* the consumed counter grows by one under this label and under no other
CountedUnder(code) ==
    \A c \in ConsumedCodes :
        MapGet(consumed', c) = MapGet(consumed, c) + (IF c = code THEN 1 ELSE 0)

\* C31: every event a worker has taken and is done with was counted exactly
\* once: under the empty code when Aggregate returned nil (the rolled-up
\* aggregate was stored), under AGG_9000 or AGG_9001 when it returned an
\* error (nothing was stored), under SYS_9000 when it panicked. Receiving
\* an event and getting its aggregate count nothing, no worker step puts an
\* event back into a lane, and the worker is back at its select afterwards.
C31_ConsumedOncePerEvent ==
    [][/\ SumFn(consumed) + Cardinality({p \in Partitions : worker[p].pc \in {"aggregate", "upsert"}})
            = SumFn(taken)
       /\ \A p \in Partitions :
             /\ (worker[p].pc = "upsert" /\ worker'[p].pc # "upsert") =>
                   /\ worker'[p].pc = "select"
                   /\ lanes' = lanes
                   /\ IF files' # files THEN CountedUnder("")
                      ELSE CountedUnder("AGG_9000") \/ CountedUnder("AGG_9001")
             /\ (worker[p].pc = "aggregate" /\ worker'[p].pc = "select") =>
                   /\ lanes' = lanes /\ files' = files /\ CountedUnder("SYS_9000")
             /\ (worker[p].pc = "aggregate" /\ worker'[p].pc = "upsert") => consumed' = consumed
             /\ (worker[p].pc = "select" /\ worker'[p].pc = "aggregate") =>
                   /\ consumed' = consumed
                   /\ lanes'[WorkerLane(p)] = Tail(lanes[WorkerLane(p)])]_vars

\* a worker counted a failed Upsert, went on to the next event of its lane
\* and counted its success
C31_ErrorThenNextEvent ==
    /\ MapGet(consumed, "AGG_9001") = 1
    /\ MapGet(consumed, "") = 1
    /\ \E p \in Partitions : taken[p] = 2 /\ worker[p].pc = "select"
    /\ \A p \in Partitions : lanes[p] = << >>

\* the event of window k of a batch summary, as the claim describes it
EventOfWindow(summary, k) ==
    [CustomerID |-> summary.CustomerID, BatchID |-> summary.BatchID,
     WindowStart |-> ParseRFC3339(k), WindowSize |-> summary.WindowSize,
     RequestsByPath |-> summary.ByWindowStart[k].RequestsByPath,
     RequestsByUserAgent |-> summary.ByWindowStart[k].RequestsByUserAgent]

\* this step appends event e to lane l and touches no other lane
AppendsTo(l, e) ==
    /\ Len(lanes'[l]) = Len(lanes[l]) + 1
    /\ SubSeq(lanes'[l], 1, Len(lanes[l])) = lanes[l]
    /\ lanes'[l][Len(lanes'[l])].event = e
    /\ \A q \in Partitions \ {l} : lanes'[q] = lanes[q]

\* C32: Produce starts with every window key of the batch summary to do;
\* each of its steps either fails (nothing is published or counted) or
\* publishes the event of one window still to do, with the summary's
\* customerId, batchId and windowSize and that window's count maps, to the
\* lane of BucketID(windowStart), and counts it once; it returns nil only
\* with the last window.
C32_OneEventPerWindow ==
    [][\A r \in Requests :
          /\ (req[r].pc = "put" /\ req'[r].pc = "produce") =>
                /\ req'[r].batchSummary = Summarize(req[r].logBatch, windowSize)
                /\ req'[r].todo = DOMAIN req'[r].batchSummary.ByWindowStart
          /\ (req[r].pc = "produce" /\ req'[r] # req[r]) =>
                IF req'[r].pc = "done" /\ req'[r].result # ""
                THEN lanes' = lanes /\ published' = published
                ELSE \E k \in req[r].todo :
                        LET e == EventOfWindow(req[r].batchSummary, k)
                            l == partitionIndex(BucketID(e.WindowSize, e.WindowStart),
                                                numPartitions)
                        IN  /\ AppendsTo(l, e)
                            /\ published' = published + 1
                            /\ IF req[r].todo = {k}
                               THEN req'[r].pc = "done" /\ req'[r].result = ""
                               ELSE /\ req'[r].pc = "produce"
                                    /\ req'[r].todo = req[r].todo \ {k}]_vars

\* a Produce over two windows has returned nil with two events published
C32_TwoWindowsProduced ==
    /\ windowSize = WindowMinute
    /\ req[1].pc = "done"
    /\ req[1].result = ""
    /\ Cardinality(DOMAIN Summarize(req[1].logBatch, windowSize).ByWindowStart) = 2
    /\ req[2].pc = "idle"
    /\ published = 2

\* ------------------------------------------------- one Produce call, in detail

\* a Produce that never looks at its context
ctxErrIgnored(cancelled) == ""

\* `select { case <-ctx.Done(): return ctx.Err(); default: }`
ctxErr(cancelled) == IF cancelled THEN "context canceled" ELSE ""

\* the batch summaries Produce is called with
ProduceSummaries ==
    {Summarize(LogBatch("batch-0001", "cus-axon", body), WindowMinute) : body \in LifecycleBodies}

\* Produce at the top of its loop, the caller's context live
Producing(summary) ==
    [pc |-> "check", cancelled |-> FALSE, summary |-> summary,
     todo |-> DOMAIN summary.ByWindowStart, key |-> << >>, err |-> "", own |-> 0]

\* the caller's context is cancelled
CancelRequest ==
    /\ input.pc # "done"
    /\ ~input.cancelled
    /\ input' = [input EXCEPT !.cancelled = TRUE]
    /\ UNCHANGED <<windowSize, app, ctxDone, stopCh, files, lanes, req, worker, ulids, faults,
                   published, consumed, ingested, created, sent, taken, pool, delivered,
                   closed, stops, disk, fileCalls>>

\* the next window of the range and publishPartialInsightEvent's look at the
\* context: Produce returns the context's error, or goes on to Publish
ProduceCheck(windowKey) ==
    /\ input.pc = "check"
    /\ windowKey \in input.todo
    /\ input' = IF ctxErr(input.cancelled) # ""
                THEN [input EXCEPT !.pc = "done", !.err = ctxErr(input.cancelled)]
                ELSE [input EXCEPT !.pc = "send", !.key = windowKey]
    /\ UNCHANGED <<windowSize, app, ctxDone, stopCh, files, lanes, req, worker, ulids, faults,
                   published, consumed, ingested, created, sent, taken, pool, delivered,
                   closed, stops, disk, fileCalls>>

\* queue.Publish (it blocks while the lane is full), the published counter,
\* and Produce's return after the last window
ProduceSend ==
    /\ input.pc = "send"
    /\ LET event == PartialInsightEvent(input.summary, input.key)
           lane == PublishLane(partitionKey(event))
           rest == input.todo \ {input.key}
       IN  /\ SendReady(lanes[lane])
           /\ lanes' = [lanes EXCEPT ![lane] = Enqueue(@, Message(event, sent[lane] + 1))]
           /\ sent' = [sent EXCEPT ![lane] = @ + 1]
           /\ published' = published + 1
           /\ input' = [input EXCEPT !.pc = IF rest = {} THEN "done" ELSE "check",
                                     !.todo = rest, !.own = @ + 1]
    /\ UNCHANGED <<windowSize, app, ctxDone, stopCh, files, req, worker, ulids, faults,
                   consumed, ingested, created, taken, pool, delivered,
                   closed, stops, disk, fileCalls>>

InitProduce ==
    /\ windowSize = WindowMinute
    /\ app = "running"
    /\ ctxDone = FALSE
    /\ stopCh = FALSE
    /\ files = [k \in {} |-> Nil]
    /\ lanes = [p \in Partitions |-> << >>]
    /\ req = [r \in Requests |-> Idle]
    /\ worker = [p \in Partitions |-> Selecting]
    /\ ulids = 0
    /\ faults = 0
    /\ published = 0
    /\ consumed = EmptyMap
    /\ ingested = EmptyMap
    /\ created = EmptyMap
    /\ sent = [p \in Partitions |-> 0]
    /\ taken = [p \in Partitions |-> 0]
    /\ pool = {}
    /\ delivered = {}
    /\ closed = FALSE
    /\ stops = [c \in StopCallers |-> "idle"]
    /\ disk = EmptyDisk
    /\ fileCalls = [c \in Callers |-> IdleCall]
    /\ input \in {Producing(summary) : summary \in ProduceSummaries}

NextProduce ==
    \/ CancelRequest
    \/ \E windowKey \in LifecycleWindowKeys : ProduceCheck(windowKey)
    \/ ProduceSend
    \/ \E p \in Partitions : WorkerReceive(p)
    \/ \E p \in Partitions : WorkerGet(p, FALSE)
    \/ \E p \in Partitions : WorkerUpsert(p, FALSE)

SpecProduce == InitProduce /\ [][NextProduce]_vars

\* C33 as stated: once the caller's context is cancelled, Produce publishes
\* no further event.
C33_NoPublishOnceCancelled ==
    [][input.cancelled => published' = published]_vars

\* C33, amended: Produce looks at the context before each Publish; a look
\* that finds it cancelled makes Produce return the context's error with
\* nothing more published, the queued events left in place; a look that
\* finds it live goes on to Publish. After a cancellation the only event
\* still published is the one whose look came before it.
C33_NoPublishAfterCancelSeen ==
    [][/\ (input.pc = "check" /\ input'.pc # "check") =>
              IF input.cancelled
              THEN /\ input'.pc = "done"
                   /\ input'.err = "context canceled"
                   /\ lanes' = lanes
                   /\ published' = published
              ELSE input'.pc = "send" /\ input'.err = ""
       /\ published' # published => (input.pc = "send" /\ published' = published + 1)
       /\ (input.pc = "done" /\ input.err # "") => published' = published]_vars

\* Produce has returned the context's error after publishing one event of
\* three, and that event is still queued
C33_CancelledAfterOnePublished ==
    /\ input.pc = "done"
    /\ input.err = "context canceled"
    /\ input.own = 1
    /\ Cardinality(input.todo) = 2
    /\ \E p \in Partitions : Len(lanes[p]) = 1
    /\ SumFn(taken) = 0

\* ------------------------------------------- Rollup on any pair of arguments

\* count maps for the two arguments: empty, disjoint and overlapping keys
RollupCounts ==
    LET one(k, n) == MapAdd(EmptyMap, k, n)
    IN  { EmptyMap, one("GET /", 1), MapAdd(one("GET /", 2), "GET /about", 1),
          one("POST /login", 3) }

\* the instant of the partial's window, the same instant in another zone, and
\* the next window
RollupStarts ==
    LET t == Truncate(Time(64995, 0), 3600)
    IN  {t, Time(t.sec, 3600), Time(t.sec + 3600, 0)}

\* stored aggregates of any identity
RollupAggregates ==
    [CustomerID : {"cus-axon", "cus-other"}, WindowStart : RollupStarts,
     WindowSize : {WindowMinute, WindowHour},
     RequestsByPath : RollupCounts, RequestsByUserAgent : {EmptyMap, MapAdd(EmptyMap, "Chrome", 2)}]

\* partial insight events of one customer and one window
RollupPartials(w) ==
    [CustomerID : {"cus-axon"}, BatchID : {"b1"},
     WindowStart : {Truncate(Time(64995, 0), 3600)}, WindowSize : {w},
     RequestsByPath : RollupCounts \ {EmptyMap},
     RequestsByUserAgent : {MapAdd(EmptyMap, "Chrome", 1), MapAdd(EmptyMap, "Firefox", 1)}]

\* the arguments of a Rollup call
RollupArgs(agg, partial) == [step |-> "args", agg |-> agg, partial |-> partial, result |-> Nil]

\* the aggregate is what the store holds under the event's key, and the event
\* is about to be aggregated
InitRollupCall ==
    /\ windowSize \in {WindowMinute, WindowHour}
    /\ app = "running"
    /\ ctxDone = FALSE
    /\ stopCh = FALSE
    /\ lanes = [p \in Partitions |-> << >>]
    /\ req = [r \in Requests |-> Idle]
    /\ worker = [p \in Partitions |-> Selecting]
    /\ ulids = 0
    /\ faults = 0
    /\ published = 0
    /\ consumed = EmptyMap
    /\ ingested = EmptyMap
    /\ created = EmptyMap
    /\ sent = [p \in Partitions |-> 0]
    /\ taken = [p \in Partitions |-> 0]
    /\ delivered = {}
    /\ closed = FALSE
    /\ stops = [c \in StopCallers |-> "idle"]
    /\ disk = EmptyDisk
    /\ fileCalls = [c \in Callers |-> IdleCall]
    /\ \E agg \in RollupAggregates, partial \in RollupPartials(windowSize) :
          /\ input = RollupArgs(agg, partial)
          /\ pool = {partial}
          /\ files = [k \in {getKey(partial.CustomerID, partial.WindowStart, partial.WindowSize)}
                        |-> MarshalAggregate(agg)]

\* aggregateRolluper.Rollup(agg, partial)
RollupCall ==
    /\ input.step = "args"
    /\ input' = [input EXCEPT !.step = "rolled", !.result = Rollup(input.agg, input.partial)]
    /\ UNCHANGED <<windowSize, app, ctxDone, stopCh, files, lanes, req, worker, ulids, faults,
                   published, consumed, ingested, created, sent, taken, pool, delivered,
                   closed, stops, disk, fileCalls>>

NextRollupCall ==
    \/ RollupCall
    \/ \E event \in RollupPartials(WindowMinute) \cup RollupPartials(WindowHour) : Aggregate(event)

SpecRollupCall == InitRollupCall /\ [][NextRollupCall]_vars

\* Rollup's three identity checks pass
SameIdentity(agg, partial) ==
    /\ agg.CustomerID = partial.CustomerID
    /\ TimeEqual(agg.WindowStart, partial.WindowStart)
    /\ agg.WindowSize = partial.WindowSize

\* after is before with every count of partial added, and nothing else
CountsAdded(before, partial, after) ==
    /\ DOMAIN after = DOMAIN before \cup DOMAIN partial
    /\ \A k \in DOMAIN partial : after[k] = MapGet(before, k) + partial[k]
    /\ \A k \in DOMAIN before \ DOMAIN partial : after[k] = before[k]

\* C34: Rollup with matching identity adds every count of the partial to the
\* aggregate's count for the same key, creating absent keys, in both
\* requestsByPath and requestsByUserAgent, and leaves the aggregate's other
\* keys and its identity fields unchanged.
C34_RollupAddsCounts ==
    (input.step = "rolled" /\ SameIdentity(input.agg, input.partial)) =>
        /\ input.result.err = ""
        /\ CountsAdded(input.agg.RequestsByPath, input.partial.RequestsByPath,
                       input.result.agg.RequestsByPath)
        /\ CountsAdded(input.agg.RequestsByUserAgent, input.partial.RequestsByUserAgent,
                       input.result.agg.RequestsByUserAgent)
        /\ input.result.agg.CustomerID = input.agg.CustomerID
        /\ input.result.agg.WindowStart = input.agg.WindowStart
        /\ input.result.agg.WindowSize = input.agg.WindowSize

\* a rollup that adds to one path, creates another, keeps a third, and
\* creates a user agent, the aggregate's window start in another zone
C34_AddsCreatesKeeps ==
    /\ input.step = "rolled"
    /\ SameIdentity(input.agg, input.partial)
    /\ input.agg.WindowStart.off # input.partial.WindowStart.off
    /\ DOMAIN input.agg.RequestsByPath = {"GET /", "GET /about"}
    /\ DOMAIN input.partial.RequestsByPath = {"GET /"}
    /\ DOMAIN input.agg.RequestsByUserAgent = {"Chrome"}
    /\ DOMAIN input.partial.RequestsByUserAgent = {"Firefox"}
    /\ input.result.agg.RequestsByPath["GET /"] = 3
    /\ DOMAIN input.result.agg.RequestsByUserAgent = {"Chrome", "Firefox"}

\* C35: when the aggregate and the partial differ in customerId, windowStart
\* instant or windowSize, Rollup returns an error and leaves the aggregate's
\* count maps as they were; Aggregate then returns AGG_9000 and the stored
\* aggregate is unchanged.
C35_MismatchLeavesAggregate ==
    [][~SameIdentity(input.agg, input.partial) =>
          /\ input'.step = "rolled" =>
                /\ input'.result.err # ""
                /\ input'.result.agg.RequestsByPath = input.agg.RequestsByPath
                /\ input'.result.agg.RequestsByUserAgent = input.agg.RequestsByUserAgent
          /\ pool' # pool =>
                /\ files' = files
                /\ created' = created
                /\ consumed' = MapAdd(EmptyMap, "AGG_9000", 1)]_vars

\* an event met a stored aggregate of the next window: Rollup refused it and
\* Aggregate counted AGG_9000, the stored counts still in place
C35_WindowStartMismatchRefused ==
    /\ input.step = "rolled"
    /\ input.agg.CustomerID = input.partial.CustomerID
    /\ input.agg.WindowSize = input.partial.WindowSize
    /\ ~TimeEqual(input.agg.WindowStart, input.partial.WindowStart)
    /\ input.result.err = "windowStart mismatch"
    /\ input.agg.RequestsByPath # EmptyMap
    /\ pool = {}
    /\ MapGet(consumed, "AGG_9000") = 1
    /\ \A k \in DOMAIN files : files[k] = MarshalAggregate(input.agg)

\* ------------------------------------------------ stored aggregates over time

\* the keys of the stored aggregates
StoredAggregateKeys(fs) == {k \in DOMAIN fs : k[1] = "aggregate-results"}

\* every count of the map is a natural number
CountsNatural(counts) == \A k \in DOMAIN counts : counts[k] \in Nat

\* no key of before is missing from after, and no count is smaller
CountsKept(before, after) ==
    \A k \in DOMAIN before : k \in DOMAIN after /\ after[k] >= before[k]

\* C36: every count in every stored aggregate is a non-negative integer, and
\* from one state to the next each key's count of a stored aggregate never
\* decreases and no key is removed.
C36_StoredCountsOnlyGrow ==
    [][/\ \A k \in StoredAggregateKeys(files') :
             /\ CountsNatural(files'[k].requestsByPath)
             /\ CountsNatural(files'[k].requestsByUserAgent)
       /\ \A k \in StoredAggregateKeys(files) :
             /\ k \in DOMAIN files'
             /\ CountsKept(files[k].requestsByPath, files'[k].requestsByPath)
             /\ CountsKept(files[k].requestsByUserAgent, files'[k].requestsByUserAgent)]_vars

\* two events were rolled up into the one stored aggregate, a second path
\* next to the first
C36_SecondEventMerged ==
    /\ MapGet(consumed, "") = 2
    /\ \E k \in StoredAggregateKeys(files) :
          /\ StoredAggregateKeys(files) = {k}
          /\ Cardinality(DOMAIN files[k].requestsByPath) >= 2
          /\ SumFn(files[k].requestsByPath) >= 3

\* --------------------------------------------- aggregateResultStore.Get alone

\* file content that is not JSON
RawBytes == [raw |-> "not json"]

\* what the store holds under the key of cus-axon's window: nothing, bytes
\* that do not decode, or an aggregate written by Upsert
StoredKinds == {"none", "corrupt", "aggregate"}

StoredAggregates(w) ==
    {agg \in RollupAggregates :
        /\ agg.CustomerID = "cus-axon"
        /\ agg.WindowSize = w
        /\ TimeEqual(agg.WindowStart, Truncate(Time(64995, 0), 3600))}

\* the store before the call
GetStore(kind, agg) ==
    LET key == getKey(agg.CustomerID, agg.WindowStart, agg.WindowSize) IN
    CASE kind = "none" -> [k \in {} |-> Nil]
      [] kind = "corrupt" -> [k \in {key} |-> RawBytes]
      [] kind = "aggregate" -> [k \in {key} |-> MarshalAggregate(agg)]

\* the arguments of a Get call and what the store holds
GetArgs(kind, agg, customerID, windowStart) ==
    [step |-> "args", kind |-> kind, stored |-> agg, customerID |-> customerID,
     windowStart |-> windowStart, ioFail |-> FALSE, result |-> Nil]

InitGet ==
    /\ windowSize \in {WindowMinute, WindowHour}
    /\ app = "running"
    /\ ctxDone = FALSE
    /\ stopCh = FALSE
    /\ lanes = [p \in Partitions |-> << >>]
    /\ req = [r \in Requests |-> Idle]
    /\ worker = [p \in Partitions |-> Selecting]
    /\ ulids = 0
    /\ faults = 0
    /\ published = 0
    /\ consumed = EmptyMap
    /\ ingested = EmptyMap
    /\ created = EmptyMap
    /\ sent = [p \in Partitions |-> 0]
    /\ taken = [p \in Partitions |-> 0]
    /\ pool = {}
    /\ delivered = {}
    /\ closed = FALSE
    /\ stops = [c \in StopCallers |-> "idle"]
    /\ disk = EmptyDisk
    /\ fileCalls = [c \in Callers |-> IdleCall]
    /\ \E kind \in StoredKinds, agg \in StoredAggregates(windowSize),
          customerID \in {"cus-axon", "cus-other"}, windowStart \in RollupStarts :
          /\ files = GetStore(kind, agg)
          /\ input = GetArgs(kind, agg, customerID, windowStart)

\* aggregateResultStore.Get(ctx, customerID, windowStart, windowSize); ioFail
\* is a failure of the file storage other than not-found
GetCall(ioFail) ==
    /\ input.step = "args"
    /\ input' = [input EXCEPT
                   !.step = "got", !.ioFail = ioFail,
                   !.result = AggregateStoreGet(files, input.customerID, input.windowStart,
                                                windowSize, ioFail)]
    /\ UNCHANGED <<windowSize, app, ctxDone, stopCh, files, lanes, req, worker, ulids, faults,
                   published, consumed, ingested, created, sent, taken, pool, delivered,
                   closed, stops, disk, fileCalls>>

NextGet == \E ioFail \in BOOLEAN : GetCall(ioFail)

SpecGet == InitGet /\ [][NextGet]_vars

\* the file of the requested customer and window exists
GetFileExists ==
    getKey(input.customerID, input.windowStart, windowSize) \in DOMAIN files

\* C37: Get returns the decoded stored aggregate when the file exists; when
\* the file storage reports not-found it returns, without error, a fresh
\* aggregate with the requested customerId, windowStart and windowSize and
\* empty count maps; on any other failure it returns a nil result and an error.
C37_GetDecodesOrStartsFresh ==
    input.step = "got" =>
        CASE input.ioFail \/ (GetFileExists /\ input.kind = "corrupt") ->
                input.result.agg = Nil /\ input.result.err # ""
          [] GetFileExists ->
                /\ input.result.err = ""
                /\ input.result.agg = input.stored
          [] OTHER ->
                /\ input.result.err = ""
                /\ input.result.agg.CustomerID = input.customerID
                /\ input.result.agg.WindowStart = input.windowStart
                /\ input.result.agg.WindowSize = windowSize
                /\ input.result.agg.RequestsByPath = EmptyMap
                /\ input.result.agg.RequestsByUserAgent = EmptyMap

\* the store holds cus-axon's aggregate, and a Get for another customer's
\* window came back fresh and without error
C37_FreshForOtherCustomer ==
    /\ input.step = "got"
    /\ input.kind = "aggregate"
    /\ input.stored.RequestsByPath # EmptyMap
    /\ input.customerID = "cus-other"
    /\ ~input.ioFail
    /\ input.result.err = ""
    /\ input.result.agg.CustomerID = "cus-other"

\* ------------------------------------------ where the batch store puts a batch

\* the longest idempotency key, in slash-separated segments
MaxKeySegs == 4

\* the segments of an idempotency-key header
KeySegments == {"b1", "..", "cus-other", "aggregate-results"}

\* idempotency keys: any header value, as its slash-separated segments; the
\* empty key is the one without segments
BatchKeys == UNION {[1..n -> KeySegments] : n \in 0..MaxKeySegs}

\* x-customer-id header values, as their slash-separated segments
BatchCustomers == {<< >>, <<"cus-axon">>, <<"cus-other">>, <<"..", "aggregate-results">>}

\* name + ".json"
JSONFile(name) ==
    CASE name = "." -> "..json"
      [] name = ".." -> "...json"
      [] name = "b1" -> "b1.json"
      [] name = "cus-other" -> "cus-other.json"
      [] name = "aggregate-results" -> "aggregate-results.json"
      [] OTHER -> "01HULID.json"

\* fmt.Sprintf("%s/%s/%s.json", s.dir, logBatch.CustomerID, logBatch.BatchID)
BatchKey(customerID, batchID) ==
    Path(FALSE, <<"raw-batches">> \o customerID \o Front(batchID)
                \o <<JSONFile(batchID[Len(batchID)])>>)

\* the arguments of an IngestBatch call with a valid body
BatchArgs(customerID, idempotencyKey) ==
    [step |-> "args", customerID |-> customerID, idempotencyKey |-> idempotencyKey,
     err |-> "", created |-> << >>]

InitBatchKey ==
    /\ windowSize = WindowMinute
    /\ app = "running"
    /\ ctxDone = FALSE
    /\ stopCh = FALSE
    /\ files = [k \in {} |-> Nil]
    /\ lanes = [p \in Partitions |-> << >>]
    /\ req = [r \in Requests |-> Idle]
    /\ worker = [p \in Partitions |-> Selecting]
    /\ ulids = 0
    /\ faults = 0
    /\ published = 0
    /\ consumed = EmptyMap
    /\ ingested = EmptyMap
    /\ created = EmptyMap
    /\ sent = [p \in Partitions |-> 0]
    /\ taken = [p \in Partitions |-> 0]
    /\ pool = {}
    /\ delivered = {}
    /\ closed = FALSE
    /\ stops = [c \in StopCallers |-> "idle"]
    /\ disk = EmptyDisk
    /\ fileCalls = [c \in Callers |-> IdleCall]
    /\ input \in {BatchArgs(customerID, idempotencyKey) :
                    customerID \in BatchCustomers, idempotencyKey \in BatchKeys}

\* IngestBatch up to the return of batchStore.Put: validateLogBatch's check of
\* the customer id, the batch id (a fresh ULID for an empty key), the store's
\* key, fileStorage.validateKey and the file putNoOverwrite creates
BatchStorePut ==
    /\ input.step = "args"
    /\ LET batchID == IF input.idempotencyKey = << >> THEN <<"01HULID">>
                      ELSE input.idempotencyKey
           key == BatchKey(input.customerID, batchID)
       IN  IF input.customerID = << >>
           THEN /\ input' = [input EXCEPT !.step = "put", !.err = "ING_1000"]
                /\ files' = files
           ELSE IF validateKey(key) # ""
           THEN /\ input' = [input EXCEPT !.step = "put", !.err = "ING_9000"]
                /\ files' = files
           ELSE /\ input' = [input EXCEPT !.step = "put", !.created = FinalPath(key)]
                /\ files' = Rename(files, FinalPath(key), "batch")
    /\ UNCHANGED <<windowSize, app, ctxDone, stopCh, lanes, req, worker, ulids, faults,
                   published, consumed, ingested, created, sent, taken, pool, delivered,
                   closed, stops, disk, fileCalls>>

NextBatchKey == BatchStorePut

SpecBatchKey == InitBatchKey /\ [][NextBatchKey]_vars

\* C38: the batch-store put of IngestBatch only ever creates a file under
\* raw-batches/{customerId}/ of the storage root: never under
\* aggregate-results/, never under another customer's raw-batches directory.
C38_PutStaysInCustomerRawBatches ==
    \A name \in DOMAIN files :
        /\ Len(name) >= 3 + Len(input.customerID)
        /\ SubSeq(name, 1, 2 + Len(input.customerID))
               = Root.segs \o <<"raw-batches">> \o input.customerID

\* ------------------------------------------------- what a summary adds up to

\* the window key of the batch's i-th entry
EntryWindowKey(i) == FormatRFC3339(UTCWindowStart(input.entries[i].ReceivedAt))

\* the entries of the batch that fall in the window
EntriesIn(windowKey) == {i \in 1..Len(input.entries) : EntryWindowKey(i) = windowKey}

\* C39: Summarize yields exactly one window per distinct UTC-truncated
\* receivedAt of the batch; in each window the requestsByPath counts and the
\* requestsByUserAgent counts each sum to the number of entries falling in
\* that window, and the totals over all windows equal the number of entries.
C39_WindowsPartitionEntries ==
    input.step = "summary" =>
        LET windows == input.summary.ByWindowStart
            total(field) == SumFn([k \in DOMAIN windows |-> SumFn(windows[k][field])])
        IN  /\ DOMAIN windows = {EntryWindowKey(i) : i \in 1..Len(input.entries)}
            /\ \A k \in DOMAIN windows :
                  /\ SumFn(windows[k].RequestsByPath) = Cardinality(EntriesIn(k))
                  /\ SumFn(windows[k].RequestsByUserAgent) = Cardinality(EntriesIn(k))
            /\ total("RequestsByPath") = Len(input.entries)
            /\ total("RequestsByUserAgent") = Len(input.entries)

\* two entries of one minute, written in different zones, summarized into one
\* window with two paths and one user agent counted twice
C39_TwoEntriesOneWindow ==
    /\ windowSize = WindowMinute
    /\ input.step = "summary"
    /\ input.entries[1].ReceivedAt = Time(64995, 0)
    /\ input.entries[2].ReceivedAt = Time(65025, 3600)
    /\ \E k \in DOMAIN input.summary.ByWindowStart :
          /\ DOMAIN input.summary.ByWindowStart = {k}
          /\ Cardinality(DOMAIN input.summary.ByWindowStart[k].RequestsByPath) = 2
          /\ Cardinality(DOMAIN input.summary.ByWindowStart[k].RequestsByUserAgent) = 1

\* ---------------------------------------------------- partitionIndex alone

\* the queue's lane count in the App
defaultNumPartitions == 8

\* the longest partition key, in bytes, besides the bucket ids
MaxKeyLen == 3

\* partition keys: every byte string of up to MaxKeyLen bytes over three byte
\* values, and four of Produce's bucket ids
PartitionKeys ==
    UNION {[1..n -> {0, 97, 255}] : n \in 0..MaxKeyLen}
        \cup {BucketID(WindowMinute, Time(60 * m, 0)) : m \in {0, 59}}
        \cup {BucketID(WindowHour, Time(3600 * h, 0)) : h \in {0, 23}}

\* a queue of n lanes and a key to publish under
PartitionArgs(key, n) == [key |-> key, n |-> n, results |-> << >>, sentTo |-> << >>]

InitPartition ==
    /\ windowSize = WindowMinute
    /\ app = "running"
    /\ ctxDone = FALSE
    /\ stopCh = FALSE
    /\ files = [k \in {} |-> Nil]
    /\ req = [r \in Requests |-> Idle]
    /\ worker = [p \in Partitions |-> Selecting]
    /\ ulids = 0
    /\ faults = 0
    /\ published = 0
    /\ consumed = EmptyMap
    /\ ingested = EmptyMap
    /\ created = EmptyMap
    /\ sent = [p \in Partitions |-> 0]
    /\ taken = [p \in Partitions |-> 0]
    /\ pool = {}
    /\ delivered = {}
    /\ closed = FALSE
    /\ stops = [c \in StopCallers |-> "idle"]
    /\ disk = EmptyDisk
    /\ fileCalls = [c \in Callers |-> IdleCall]
    /\ \E key \in PartitionKeys, n \in 1..defaultNumPartitions :
          /\ input = PartitionArgs(key, n)
          /\ lanes = [p \in 0..(n - 1) |-> << >>]

\* one call of partitionIndex(key, n); two calls are followed
PartitionIndexCall ==
    /\ Len(input.results) < 2
    /\ input' = [input EXCEPT !.results = Append(@, partitionIndex(input.key, input.n))]
    /\ UNCHANGED <<windowSize, app, ctxDone, stopCh, files, lanes, req, worker, ulids, faults,
                   published, consumed, ingested, created, sent, taken, pool, delivered,
                   closed, stops, disk, fileCalls>>

\* PartitionedQueue.Publish(partitionKey, msg): the lane index, and the send
\* to queue.partitions[idx]; an index outside the slice panics and sends nothing
QueuePublish ==
    /\ input.sentTo = << >>
    /\ LET idx == partitionIndex(input.key, Cardinality(DOMAIN lanes)) IN
       /\ input' = [input EXCEPT !.sentTo = <<idx>>]
       /\ lanes' = IF idx \in DOMAIN lanes
                   THEN [lanes EXCEPT ![idx] = Append(@, input.key)]
                   ELSE lanes
    /\ published' = published + 1
    /\ UNCHANGED <<windowSize, app, ctxDone, stopCh, files, req, worker, ulids, faults,
                   consumed, ingested, created, sent, taken, pool, delivered,
                   closed, stops, disk, fileCalls>>

NextPartition ==
    \/ PartitionIndexCall
    \/ QueuePublish

SpecPartition == InitPartition /\ [][NextPartition]_vars

====
